---- MODULE Spec2Model ----
(***************************************************************************)
(* Time synchronisation, wall-clock calibration and task orchestration of  *)
(* the feather-stm32f405 firmware.                                         *)
(*                                                                         *)
(* The repository holds several snapshots of the same subsystem.  The      *)
(* model keeps them apart:                                                 *)
(*   - the SNTP procedure exists as SntpClient::sync (network/sntp.rs,     *)
(*     which writes the RTC and calibrates the wall clock) and as          *)
(*     sync_sntp (time/sntp.rs, which only returns the timestamp); the     *)
(*     variable `client` says which of the two a call runs;                *)
(*   - Spec        : a caller invoking either procedure, with WallClock;   *)
(*   - TaskSpec    : the RTIC tasks of main.rs (network_task, sntp_resync, *)
(*                   frame_logger) and their channel;                      *)
(*   - SharedStackSpec : run_sntp_resync_task of time/mod.rs, which takes  *)
(*                   the stack registered through net.rs register_stack.   *)
(*                                                                         *)
(* 32-bit quantities that exceed TLC's integer range are kept as two       *)
(* 16-bit limbs [hi, lo], value hi * 65536 + lo.                           *)
(***************************************************************************)
EXTENDS Integers, Sequences, FiniteSets, TLC

VARIABLES
    sync_pc,        \* where the sync procedure is suspended
    client,         \* "SntpClient" | "sync_sntp": the procedure being run
    sync_caller,    \* the unit that called the procedure last
    server,         \* index into the server list (outer for loop)
    attempt,        \* retry index on that server (inner for loop)
    attempts,       \* history: the attempts of the current call, in order
    timeouts,       \* history: how many attempts of the current call timed out
    backoffs,       \* history: how many backoff delays of the current call have elapsed
    last_err,       \* the `e` of the Err arm while the backoff runs
    last_reply,     \* what the select on the receive produced, while in scope
    sync_result,    \* what the last call returned
    sync_ts,        \* the Timestamp the last call returned with Ok
    wallclock,      \* BASE_UNIX_SECS, BASE_UNIX_MICROS, BASE_MONO_MICROS, TIME_SYNCED
    rtc,            \* backup hardware clock and the outcome of the last write
    nsyncs,         \* number of calls made so far (bounded)
    owner_pc,       \* network_task: its suspension point
    owner_phases,   \* history: the phases network_task has entered, in order
    mh_pc,          \* network_task: where its message_handler future is suspended
    link_up,        \* the link driver has brought the PHY up
    config_up,      \* the IP stack has an address configuration
    chan,           \* the message channel (make_channel!(NetworkMessage, 8))
    resync_pc,      \* sntp_resync: its suspension point
    resync_warned,  \* sntp_resync took its "Failed to send" branch
    logger_pc,      \* frame_logger: its suspension point
    stack_ops,      \* history: <<unit, operation>> performed on the Stack object
    stack_registered, \* ccmram holds a reference to the Stack (register_stack)
    rs_pc,          \* run_sntp_resync_task: its suspension point
    now_call,       \* the last now_unix_time call: its argument, locals and result
    readings,       \* history: the last two now_unix_time calls since the last calibration
    conn_owner,     \* the unit that owns the connection attempts: "loop" | "in_connect"
    conn_pc,        \* where the connect call is suspended
    conn_fn,        \* "connect" (MqttClient) | "test_handshake" (TlsClient)
    conn_ops,       \* history: operations performed by the current call, counted
    conn_steps,     \* history: the steps of the current call and their outcomes, in order
    conn_result,    \* what the last call returned
    conn_history,   \* history: the results of the calls made, in order
    tls_sessions,   \* the calls whose TlsConnection holds TLS_READ_BUF / TLS_WRITE_BUF
    nconnects,      \* number of calls made so far (bounded)
    topic_call,     \* the last format_mqtt_topic call: its arguments and result
    cal_call,       \* the last calendar conversion: its input and results
    ntp_call,       \* the last Timestamp::from_ntp call: its arguments and result
    cal_pc,         \* calibrate_wallclock: 0 when no call runs, else its next store (1..4)
    cal_args,       \* calibrate_wallclock: the arguments of the running call
    cal_first,      \* the running call started with TIME_SYNCED false
    cal_history,    \* history: the argument triples of the calls started so far
    ncals,          \* number of calibrate_wallclock calls started (bounded)
    rd_pc,          \* a reader in now_unix_time: its next load
    rd_mono,        \* the reader's argument current_mono_micros
    rd_loaded,      \* what the reader has loaded so far
    rd_overlap,     \* history: the calls whose stores the reader's loads ran between
    rd_result,      \* what the reader's call returned
    publish_call,   \* the last MqttClient::publish call: what preceded it and its result
    pp_pc,          \* run_with_periodic_publish: where the call is suspended
    pp_client_id,   \* its local client_id
    message_counter, \* its local message_counter
    pp_connects,    \* history: session connects performed by the call
    pp_result,      \* what the call returned
    pp_log,         \* history: the publishes made, with counter, outcome and session
    hw_datetime,    \* the hardware RTC: the DateTime last written to it
    cached_timestamp, \* CACHED_UNIX_SECS_LO/HI and CACHED_MICROS
    rtc_call,       \* the last write_rtc / read_rtc call and what it did
    mon_pc,         \* run_network_monitor: where it is suspended or about to run
    mon_chan,       \* NETWORK_CHANNEL: the queued messages
    mon_sent,       \* history: number of messages enqueued so far
    mon_handled,    \* history: the messages whose frame was logged, in order
    mon_dropped     \* history: the messages taken from the channel and not handled

sync_vars == <<sync_pc, client, sync_caller, server, attempt, attempts, timeouts, backoffs, last_err,
               last_reply, sync_result, sync_ts, wallclock, rtc, nsyncs>>
owner_vars == <<owner_pc, owner_phases, mh_pc, link_up, config_up>>
resync_vars == <<resync_pc, resync_warned>>
task_vars == <<owner_vars, chan, resync_vars, logger_pc>>
share_vars == <<stack_registered, rs_pc>>
clock_vars == <<now_call, readings>>
conn_vars == <<conn_owner, conn_pc, conn_fn, conn_ops, conn_steps, conn_result, conn_history,
               tls_sessions, nconnects>>
fn_vars == <<topic_call, cal_call, ntp_call>>
torn_vars == <<cal_pc, cal_args, cal_first, cal_history, ncals,
               rd_pc, rd_mono, rd_loaded, rd_overlap, rd_result>>
pub_vars == <<publish_call>>
loop_vars == <<pp_pc, pp_client_id, message_counter, pp_connects, pp_result, pp_log>>
rtcdrv_vars == <<hw_datetime, cached_timestamp, rtc_call>>
mon_vars == <<mon_pc, mon_chan, mon_sent, mon_handled, mon_dropped>>
aux_vars == <<pub_vars, loop_vars, rtcdrv_vars, mon_vars>>
vars == <<sync_vars, task_vars, share_vars, stack_ops, clock_vars, conn_vars, fn_vars,
          torn_vars, aux_vars>>

----------------------------------------------------------------------------
(* Bounds of the model *)

\* calls of the sync procedure in one behaviour
MaxSyncs == 2
\* connect calls the owning unit makes in a behaviour
MaxConnects == 3
\* the last day of the supported range, 2105-12-31, in days since 1970-01-01
MaxDay == 49672
\* calls of calibrate_wallclock interleaved with a reader
MaxCalibrations == 2
\* cycles of the periodic publish loop
MaxCycles == 5
\* messages sent on NETWORK_CHANNEL
MaxMessages == 5

(* Program constants *)

\* SntpConfig::default().servers / NTP_SERVERS: three entries
NumServers == 3
\* SntpConfig::default().retry_count / SNTP_RETRY_COUNT
retry_count == 3
\* SntpConfig::default().max_stratum / MAX_STRATUM
max_stratum == 3
\* SntpConfig::default().timeout_ms / SNTP_TIMEOUT_MS
timeout_ms == 5000
\* the length of an NTP packet
NTP_PACKET_LEN == 48
\* NTP_UNIX_OFFSET = 2_208_988_800 = 33706 * 65536 + 32384
NTP_UNIX_OFFSET_HI == 33706
NTP_UNIX_OFFSET_LO == 32384
\* time/sntp.rs: rtt_correction_micros.min(1_000_000)
MAX_RTT_CORRECTION_US == 1000000
\* make_channel!(network::NetworkMessage, 8)
CHANNEL_CAPACITY == 8
MAX_TOPIC_LEN == 64
CLIENT_ID_MAX_LEN == 34
NETWORK_CHANNEL_CAPACITY == 8
PAYLOAD_BUF_LEN == 128

U32(h, l) == [hi |-> h, lo |-> l]

----------------------------------------------------------------------------
(* Inputs the environment supplies *)

\* transmit seconds of a reply (NTP epoch): 0 (before the Unix epoch) and
\* 2024-01-01T00:00:00Z (3_913_056_000 = 59708 * 65536 + 32512)
NtpSecsValues == {U32(0, 0), U32(59708, 32512)}
\* transmit fraction of a reply: one half, and the largest 32-bit value
NtpFracValues == {U32(32768, 0), U32(65535, 65535)}
\* measured round trip T1 - T0 in microseconds, below the request timeout
RttValues == {0, 1000000, 3000000, timeout_ms * 1000 - 1}
\* stratum byte of a reply
StratumValues == {0, 1, 2, max_stratum, max_stratum + 1, 16}
\* Mono::now().ticks() as u32 at calibration
MonoValues == {U32(0, 100), U32(65535, 65440)}
\* what write_rtc returns
RtcResults == {"Ok", "NotInitialized", "HardwareError"}

NoReply == [kind |-> "none", len |-> 0, src_ok |-> FALSE, stratum |-> 0,
            secs |-> U32(0, 0), frac |-> U32(0, 0), rtt |-> 0]
TimeoutReply == [NoReply EXCEPT !.kind = "timeout"]
RecvErrReply == [NoReply EXCEPT !.kind = "recv_err"]

\* line 153 of network/sntp.rs, line 179 of time/sntp.rs
stratum_no_zero_check(stratum) == stratum <= max_stratum
stratum_ok(stratum) == ~(stratum = 0 \/ stratum > max_stratum)

\* a validation that looks at the length only
response_ok_length_only(len, src_ok) == ~(len < NTP_PACKET_LEN)
\* line 146 of network/sntp.rs, line 171 of time/sntp.rs
response_ok(len, src_ok) == ~(len < NTP_PACKET_LEN \/ ~src_ok)

\* The datagrams a receive can deliver.  The response buffer is 48 bytes, so
\* a received length is at most 48.  A datagram that fails validation carries
\* no payload the procedure looks at.
Datagram(len, src_ok, stratum, secs, frac, rtt) ==
    [kind |-> "datagram", len |-> len, src_ok |-> src_ok, stratum |-> stratum,
     secs |-> secs, frac |-> frac, rtt |-> rtt]

Datagrams ==
    {Datagram(h[1], h[2], h[3], U32(0, 0), U32(0, 0), 0) :
        h \in {g \in {NTP_PACKET_LEN - 1, NTP_PACKET_LEN} \X BOOLEAN \X StratumValues :
                  ~(g[1] = NTP_PACKET_LEN /\ g[2] /\ stratum_ok(g[3]))}}
    \cup
    {Datagram(NTP_PACKET_LEN, TRUE, h[1], h[2], h[3], h[4]) :
        h \in {t \in StratumValues : stratum_ok(t)}
                 \X NtpSecsValues \X NtpFracValues \X RttValues}

Replies == {TimeoutReply, RecvErrReply} \cup Datagrams

----------------------------------------------------------------------------
(* Timestamp *)

Timestamp(s, u) == [unix_secs |-> s, micros |-> u]
NoTimestamp == Timestamp(0, 0)

\* Timestamp::from_ntp: unix_secs = ntp_secs.saturating_sub(NTP_UNIX_OFFSET),
\* micros = ((ntp_frac as u64 * 1_000_000) >> 32) as u32.
\* With frac = hi * 2^16 + lo and 1_000_000 = 15625 * 2^6:
\*   (frac * 15625 * 2^6) >> 32 = (hi * 15625 + (lo * 15625) \div 2^16) \div 2^10
\* a subtraction that saturates on the high half only
from_ntp_unsaturated(ntp_secs, ntp_frac) ==
    LET secs == IF ntp_secs.hi < NTP_UNIX_OFFSET_HI THEN 0
                ELSE (ntp_secs.hi - NTP_UNIX_OFFSET_HI) * 65536
                         + (ntp_secs.lo - NTP_UNIX_OFFSET_LO)
        micros == (ntp_frac.hi * 15625 + ((ntp_frac.lo * 15625) \div 65536)) \div 1024
    IN Timestamp(secs, micros)
from_ntp(ntp_secs, ntp_frac) ==
    LET below == \/ ntp_secs.hi < NTP_UNIX_OFFSET_HI
                 \/ (ntp_secs.hi = NTP_UNIX_OFFSET_HI /\ ntp_secs.lo < NTP_UNIX_OFFSET_LO)
        secs == IF below THEN 0
                ELSE (ntp_secs.hi - NTP_UNIX_OFFSET_HI) * 65536
                         + (ntp_secs.lo - NTP_UNIX_OFFSET_LO)
        micros == (ntp_frac.hi * 15625 + ((ntp_frac.lo * 15625) \div 65536)) \div 1024
    IN Timestamp(secs, micros)

\* the arguments from_ntp is applied to on its own: seconds around the
\* epoch offset and at both ends of the 32-bit range, fractions at both ends
\* and around one half
FromNtpSecsValues ==
    {U32(h, l) : h \in {0, NTP_UNIX_OFFSET_HI - 1, NTP_UNIX_OFFSET_HI, NTP_UNIX_OFFSET_HI + 1,
                        59708, 65535},
                 l \in {0, NTP_UNIX_OFFSET_LO - 1, NTP_UNIX_OFFSET_LO, NTP_UNIX_OFFSET_LO + 1,
                        65535}}
FromNtpFracValues ==
    {U32(h, l) : h \in {0, 1, 32767, 32768, 65535}, l \in {0, 1, 4294, 4295, 65535}}

NoNtpCall == [called |-> FALSE, ntp_secs |-> U32(0, 0), ntp_frac |-> U32(0, 0),
              ts |-> NoTimestamp]

\* one call of Timestamp::from_ntp.  The function is pure: one call per
\* behaviour covers every input.
from_ntp_call ==
    /\ ~ntp_call.called
    /\ \E s \in FromNtpSecsValues, f \in FromNtpFracValues :
          ntp_call' = [called |-> TRUE, ntp_secs |-> s, ntp_frac |-> f,
                       ts |-> from_ntp(s, f)]
    /\ UNCHANGED <<sync_vars, task_vars, share_vars, stack_ops, clock_vars, conn_vars,
                   topic_call, cal_call, torn_vars, aux_vars>>

\* The half-round-trip correction.
\* network/sntp.rs 166-176: micros.saturating_add((rtt / 2) as u32), then one
\* carry.  time/sntp.rs 190-203: the same with the correction clamped first.
\* (The sums stay below 2^30: neither the cast nor the saturation changes them.)
add_correction(ts, correction) ==
    LET m == ts.micros + correction
    IN IF m >= 1000000 THEN Timestamp(ts.unix_secs + 1, m - 1000000)
       ELSE Timestamp(ts.unix_secs, m)

Min(a, b) == IF a <= b THEN a ELSE b

rtt_correction(c, rtt) ==
    IF c = "sync_sntp" THEN Min(rtt \div 2, MAX_RTT_CORRECTION_US) ELSE rtt \div 2

----------------------------------------------------------------------------
(* WallClock (ccmram.rs) *)

\* `timestamp.unix_secs as u32` at the call of calibrate_wallclock (from_ntp
\* of a 32-bit NTP second count plus one carry is below 2^31)
as_u32(n) == U32(n \div 65536, n % 65536)

\* calibrate_wallclock: the three stores and TIME_SYNCED.store(true).
\* unix_secs and mono_micros are u32 limbs.
calibrate_wallclock_flag_from_secs(unix_secs, unix_micros, mono_micros) ==
    [base_unix_secs |-> unix_secs, base_unix_micros |-> unix_micros,
     base_mono_micros |-> mono_micros, synced |-> (unix_secs # U32(0, 0))]
calibrate_wallclock(unix_secs, unix_micros, mono_micros) ==
    [base_unix_secs |-> unix_secs, base_unix_micros |-> unix_micros,
     base_mono_micros |-> mono_micros, synced |-> TRUE]

Unsynced == [base_unix_secs |-> U32(0, 0), base_unix_micros |-> 0,
             base_mono_micros |-> U32(0, 0), synced |-> FALSE]

----------------------------------------------------------------------------
(* The sync procedure: SntpClient::sync / sync_sntp *)

Clients == {"SntpClient", "sync_sntp"}

\* The error enums: NetworkError (network/error.rs) for SntpClient, SntpError
\* (time/sntp.rs) for sync_sntp, which has one NetworkError for resolver and
\* socket failures and calls a rejected stratum InvalidStratum.
ErrName(c, e) ==
    IF c = "SntpClient" THEN e
    ELSE CASE e \in {"DnsError", "SocketError"} -> "NetworkError"
           [] e = "ServerError" -> "InvalidStratum"
           [] OTHER -> e

\* impl From<RtcError> for NetworkError
RtcErrorToNetworkError(e) ==
    IF e = "NotInitialized" THEN "RtcNotInitialized" ELSE "RtcHardwareError"

Ok(ts) == [ok |-> TRUE, err |-> "none", ts |-> ts]
Err(e) == [ok |-> FALSE, err |-> e, ts |-> NoTimestamp]

\* sntp_request from the select on: the result for what the receive produced
sntp_reply_result_timeout_as_socket_error(c, r) ==
    CASE r.kind = "timeout" -> Err(ErrName(c, "SocketError"))
      [] r.kind = "recv_err" -> Err(ErrName(c, "SocketError"))
      [] ~response_ok(r.len, r.src_ok) -> Err("InvalidResponse")
      [] ~stratum_ok(r.stratum) -> Err(ErrName(c, "ServerError"))
      [] OTHER -> Ok(add_correction(from_ntp(r.secs, r.frac), rtt_correction(c, r.rtt)))
sntp_reply_result(c, r) ==
    CASE r.kind = "timeout" -> Err("Timeout")
      [] r.kind = "recv_err" -> Err(ErrName(c, "SocketError"))
      [] ~response_ok(r.len, r.src_ok) -> Err("InvalidResponse")
      [] ~stratum_ok(r.stratum) -> Err(ErrName(c, "ServerError"))
      [] OTHER -> Ok(add_correction(from_ntp(r.secs, r.frac), rtt_correction(c, r.rtt)))

\* The two for loops: the position after a failed attempt, or done when the
\* last retry on the last server has failed.
sync_next_one_more_retry(s, a) ==
    IF a + 1 <= retry_count THEN [server |-> s, attempt |-> a + 1, done |-> FALSE]
    ELSE IF s < NumServers THEN [server |-> s + 1, attempt |-> 0, done |-> FALSE]
    ELSE [server |-> s, attempt |-> a, done |-> TRUE]
sync_next(s, a) ==
    IF a + 1 < retry_count THEN [server |-> s, attempt |-> a + 1, done |-> FALSE]
    ELSE IF s < NumServers THEN [server |-> s + 1, attempt |-> 0, done |-> FALSE]
    ELSE [server |-> s, attempt |-> a, done |-> TRUE]

\* A unit calls the procedure: the loops start at the first server.
SyncCall(c, who) ==
    /\ sync_pc = "idle"
    /\ nsyncs < MaxSyncs
    /\ sync_pc' = "dns"
    /\ client' = c
    /\ sync_caller' = who
    /\ server' = 1
    /\ attempt' = 0
    /\ attempts' = <<>>
    /\ timeouts' = 0
    /\ backoffs' = 0
    /\ last_err' = "none"
    /\ last_reply' = NoReply
    /\ sync_result' = "none"
    /\ sync_ts' = NoTimestamp
    /\ rtc' = [rtc EXCEPT !.write = "none"]
    /\ nsyncs' = nsyncs + 1
    /\ UNCHANGED wallclock

\* a failed attempt that clears the calibration
attempt_failed_clears_calibration(e) ==
    /\ attempts' = Append(attempts, [server |-> server, ok |-> FALSE])
    /\ timeouts' = IF e = "Timeout" THEN timeouts + 1 ELSE timeouts
    /\ last_err' = e
    /\ sync_pc' = "backoff"
    /\ wallclock' = [wallclock EXCEPT !.base_unix_micros = 0]
    /\ UNCHANGED <<client, sync_caller, server, attempt, backoffs, sync_result, sync_ts,
                   rtc, nsyncs>>

\* an Err arm that skips the delay when no attempt is left
attempt_failed_no_final_backoff(e) ==
    /\ attempts' = Append(attempts, [server |-> server, ok |-> FALSE])
    /\ timeouts' = IF e = "Timeout" THEN timeouts + 1 ELSE timeouts
    /\ last_err' = e
    /\ IF sync_next(server, attempt).done
       THEN sync_pc' = "idle" /\ sync_result' = "AllServersFailed"
       ELSE sync_pc' = "backoff" /\ UNCHANGED sync_result
    /\ UNCHANGED <<client, sync_caller, server, attempt, backoffs, sync_ts,
                   wallclock, rtc, nsyncs>>

\* The Err(e) arm: log, then Mono::delay(2000 ms) / Timer::after(2000 ms).
attempt_failed(e) ==
    /\ attempts' = Append(attempts, [server |-> server, ok |-> FALSE])
    /\ timeouts' = IF e = "Timeout" THEN timeouts + 1 ELSE timeouts
    /\ last_err' = e
    /\ sync_pc' = "backoff"
    /\ UNCHANGED <<client, sync_caller, server, attempt, backoffs, sync_result, sync_ts,
                   wallclock, rtc, nsyncs>>

\* The Ok(timestamp) arm.  SntpClient: write_rtc(timestamp)?, then
\* calibrate_wallclock, then return.  sync_sntp: return the timestamp.
attempt_ok(ts, w, mono) ==
    /\ attempts' = Append(attempts, [server |-> server, ok |-> TRUE])
    /\ sync_pc' = "idle"
    /\ last_err' = "none"
    /\ IF client = "SntpClient"
       THEN IF w # "Ok"
            THEN /\ rtc' = [rtc EXCEPT !.write = w]
                 /\ sync_result' = RtcErrorToNetworkError(w)
                 /\ sync_ts' = NoTimestamp
                 /\ UNCHANGED wallclock
            ELSE /\ rtc' = [secs |-> ts.unix_secs, write |-> "Ok"]
                 /\ wallclock' = calibrate_wallclock(as_u32(ts.unix_secs), ts.micros, mono)
                 /\ sync_result' = "Ok"
                 /\ sync_ts' = ts
       ELSE /\ sync_result' = "Ok"
            /\ sync_ts' = ts
            /\ UNCHANGED <<wallclock, rtc>>
    /\ UNCHANGED <<client, sync_caller, server, attempt, timeouts, backoffs, nsyncs>>

\* The suspension points of an attempt at which the awaited future is raced
\* against Timer::after(timeout_ms): only the receive is wrapped in
\* select(timeout_future, recv_future); dns_query(..).await and
\* send_to(..).await are awaited bare.
raced_with_timer(pc) == pc = "recv"

\* stack.dns_query(server, A).await, then .first()
dns_query ==
    /\ sync_pc = "dns"
    /\ \E o \in {"ok", "err", "empty"} :
          IF o = "ok"
          THEN /\ sync_pc' = "send"
               /\ UNCHANGED <<client, sync_caller, server, attempt, attempts, timeouts, backoffs, last_err,
                              last_reply, sync_result, sync_ts, wallclock, rtc, nsyncs>>
          ELSE /\ attempt_failed(ErrName(client, "DnsError"))
               /\ UNCHANGED last_reply
    /\ UNCHANGED <<task_vars, share_vars, clock_vars, conn_vars, fn_vars, torn_vars, stack_ops, aux_vars>>

\* socket.bind(0), then socket.send_to(&ntp_packet, server_endpoint).await
send_to ==
    /\ sync_pc = "send"
    /\ \E o \in {"ok", "bind_err", "send_err"} :
          IF o = "ok"
          THEN /\ sync_pc' = "recv"
               /\ UNCHANGED <<client, sync_caller, server, attempt, attempts, timeouts, backoffs, last_err,
                              last_reply, sync_result, sync_ts, wallclock, rtc, nsyncs>>
          ELSE /\ attempt_failed(ErrName(client, "SocketError"))
               /\ UNCHANGED last_reply
    /\ UNCHANGED <<task_vars, share_vars, clock_vars, conn_vars, fn_vars, torn_vars, stack_ops, aux_vars>>

\* select(timeout_future, recv_future).await and everything after it
recv_from ==
    /\ sync_pc = "recv"
    /\ \E r \in Replies, w \in RtcResults, mono \in MonoValues :
          LET res == sntp_reply_result(client, r)
          IN /\ last_reply' = r
             /\ IF res.ok THEN attempt_ok(res.ts, w, mono) ELSE attempt_failed(res.err)
    /\ UNCHANGED <<task_vars, share_vars, clock_vars, conn_vars, fn_vars, torn_vars, stack_ops, aux_vars>>

\* the backoff delay elapses: next iteration, or Err(AllServersFailed)
backoff ==
    /\ sync_pc = "backoff"
    /\ LET n == sync_next(server, attempt)
       IN IF n.done
          THEN /\ sync_pc' = "idle"
               /\ sync_result' = "AllServersFailed"
               /\ UNCHANGED <<server, attempt>>
          ELSE /\ sync_pc' = "dns"
               /\ server' = n.server
               /\ attempt' = n.attempt
               /\ UNCHANGED sync_result
    /\ last_err' = "none"
    /\ last_reply' = NoReply
    /\ backoffs' = backoffs + 1
    /\ UNCHANGED <<client, sync_caller, attempts, timeouts, sync_ts, wallclock, rtc, nsyncs>>
    /\ UNCHANGED <<task_vars, share_vars, clock_vars, conn_vars, fn_vars, torn_vars, stack_ops, aux_vars>>

\* NetworkClient::run / initialize_time: a caller starts one procedure
run ==
    /\ \E c \in Clients : SyncCall(c, "caller")
    /\ UNCHANGED <<task_vars, share_vars, clock_vars, conn_vars, fn_vars, torn_vars, stack_ops, aux_vars>>

----------------------------------------------------------------------------
(* Reading the wall clock: ccmram::now_unix_time *)

\* current_mono_micros: the tick counter at a call of now_unix_time
TickValues ==
    {U32(0, 0), U32(0, 100), U32(32768, 0), U32(65535, 65440), U32(65535, 65535)}

\* u32::wrapping_sub, on limbs
saturating_sub(a, b) ==
    IF a.hi < b.hi \/ (a.hi = b.hi /\ a.lo < b.lo) THEN U32(0, 0)
    ELSE LET borrow == IF a.lo < b.lo THEN 1 ELSE 0
         IN U32(a.hi - b.hi - borrow, (a.lo - b.lo) % 65536)
wrapping_sub(a, b) ==
    LET borrow == IF a.lo < b.lo THEN 1 ELSE 0
    IN U32((a.hi - b.hi - borrow) % 65536, (a.lo - b.lo) % 65536)

\* u32::wrapping_add, on limbs
wrapping_add(a, b) ==
    LET lo == a.lo + b.lo
    IN U32((a.hi + b.hi + (lo \div 65536)) % 65536, lo % 65536)

\* v / 1_000_000 and v % 1_000_000 of a u32 on limbs, with
\* 1_000_000 = 64 * 15625: v / 64 = hi * 1024 + lo / 64 fits the integers.
div_1000000(v) == (v.hi * 1024 + (v.lo \div 64)) \div 15625
mod_1000000(v) == ((v.hi * 1024 + (v.lo \div 64)) % 15625) * 64 + (v.lo % 64)

NoCall ==
    [called |-> FALSE, mono |-> U32(0, 0), synced |-> FALSE, base_mono |-> U32(0, 0),
     base_secs |-> U32(0, 0), base_micros |-> 0,
     elapsed |-> U32(0, 0), secs |-> U32(0, 0), micros |-> 0]

\* now_unix_time(current_mono_micros), with the values it loaded and computed.
\* elapsed_secs is at most 4294 and micros_overflow at most 1.
now_unix_time_no_sync_check(wc, current_mono_micros) ==
    LET elapsed_micros == wrapping_sub(current_mono_micros, wc.base_mono_micros)
        elapsed_secs == div_1000000(elapsed_micros)
        elapsed_micros_remainder == mod_1000000(elapsed_micros)
        total_micros == wc.base_unix_micros + elapsed_micros_remainder
        micros_overflow == total_micros \div 1000000
        final_micros == total_micros % 1000000
        final_secs == wrapping_add(wrapping_add(wc.base_unix_secs, U32(0, elapsed_secs)),
                                        U32(0, micros_overflow))
    IN [called |-> TRUE, mono |-> current_mono_micros, synced |-> TRUE,
        base_mono |-> wc.base_mono_micros, base_secs |-> wc.base_unix_secs,
             base_micros |-> wc.base_unix_micros, elapsed |-> elapsed_micros,
        secs |-> final_secs, micros |-> final_micros]
\* a carry out of the microseconds that is not added to the seconds
now_unix_time_no_carry(wc, current_mono_micros) ==
    LET r == now_unix_time_no_sync_check(wc, current_mono_micros)
    IN IF ~wc.synced THEN [NoCall EXCEPT !.called = TRUE, !.mono = current_mono_micros]
       ELSE [r EXCEPT !.secs = wrapping_add(wc.base_unix_secs,
                                            U32(0, div_1000000(r.elapsed)))]
\* an elapsed time that sticks at zero when the tick counter has wrapped
now_unix_time_saturating_elapsed(wc, current_mono_micros) ==
    IF ~wc.synced
    THEN [NoCall EXCEPT !.called = TRUE, !.mono = current_mono_micros]
    ELSE LET stuck == saturating_sub(current_mono_micros, wc.base_mono_micros) = U32(0, 0)
             r == now_unix_time_no_sync_check(
                      wc, IF stuck THEN wc.base_mono_micros ELSE current_mono_micros)
         IN [r EXCEPT !.mono = current_mono_micros]
now_unix_time(wc, current_mono_micros) ==
    IF ~wc.synced
    THEN [NoCall EXCEPT !.called = TRUE, !.mono = current_mono_micros]
    ELSE LET elapsed_micros == wrapping_sub(current_mono_micros, wc.base_mono_micros)
             elapsed_secs == div_1000000(elapsed_micros)
             elapsed_micros_remainder == mod_1000000(elapsed_micros)
             total_micros == wc.base_unix_micros + elapsed_micros_remainder
             micros_overflow == total_micros \div 1000000
             final_micros == total_micros % 1000000
             final_secs == wrapping_add(wrapping_add(wc.base_unix_secs, U32(0, elapsed_secs)),
                                        U32(0, micros_overflow))
         IN [called |-> TRUE, mono |-> current_mono_micros, synced |-> TRUE,
                  base_mono |-> wc.base_mono_micros, base_secs |-> wc.base_unix_secs,
             base_micros |-> wc.base_unix_micros, elapsed |-> elapsed_micros,
             secs |-> final_secs, micros |-> final_micros]

\* a reader calls now_unix_time
now ==
    /\ \E m \in TickValues :
          /\ now_call' = now_unix_time(wallclock, m)
          /\ readings' = IF Len(readings) < 2 THEN Append(readings, now_call')
                         ELSE <<readings[2], now_call'>>
    /\ UNCHANGED <<sync_vars, task_vars, share_vars, stack_ops, conn_vars, fn_vars, torn_vars, aux_vars>>

\* the values a caller of ccmram::calibrate_wallclock passes
\* 0, 2024-01-01 (1_704_067_200), 2_085_978_495 and the largest u32
CalSecsValues == {U32(0, 0), U32(26002, 128), U32(31829, 33151), U32(65535, 65535)}
CalMicrosValues == {0, 500000, 999999}

\* a caller calibrates the wall clock
calibrate ==
    /\ \E us \in CalSecsValues, um \in CalMicrosValues, mm \in TickValues :
          wallclock' = calibrate_wallclock(us, um, mm)
    /\ readings' = <<>>
    /\ UNCHANGED <<sync_pc, client, sync_caller, server, attempt, attempts, timeouts, backoffs,
                   last_err, last_reply, sync_result, sync_ts, rtc, nsyncs>>
    /\ UNCHANGED <<task_vars, share_vars, stack_ops, now_call, conn_vars, fn_vars, torn_vars, aux_vars>>

----------------------------------------------------------------------------
(* A reader of now_unix_time running between the stores of                 *)
(* calibrate_wallclock: each atomic store and load is one step             *)

\* the four Release stores of calibrate_wallclock, in program order
store_field_flag_first(k) ==
    <<"synced", "base_unix_secs", "base_unix_micros", "base_mono_micros">>[k]
store_field(k) ==
    <<"base_unix_secs", "base_unix_micros", "base_mono_micros", "synced">>[k]

\* the four Acquire loads of now_unix_time, in program order
load_field(pc) ==
    CASE pc = "idle" -> "synced"
      [] pc = "secs" -> "base_unix_secs"
      [] pc = "micros" -> "base_unix_micros"
      [] pc = "mono" -> "base_mono_micros"

load_next(pc) ==
    CASE pc = "idle" -> "secs"
      [] pc = "secs" -> "micros"
      [] pc = "micros" -> "mono"
      [] pc = "mono" -> "done"

\* the triples the writer passes in this specification
TornSecsValues == {U32(26002, 128), U32(31829, 33151)}
TornMicrosValues == {0, 500000}
TornMonoValues == {U32(0, 100), U32(65535, 65440)}

CallKind == IF cal_first THEN "first" ELSE "recalibration"

\* the writer enters calibrate_wallclock
cal_start ==
    /\ cal_pc = 0
    /\ ncals < MaxCalibrations
    /\ \E us \in TornSecsValues, um \in TornMicrosValues, mm \in TornMonoValues :
          /\ cal_args' = calibrate_wallclock(us, um, mm)
          /\ cal_history' = cal_history \cup {<<us, um, mm>>}
    /\ cal_pc' = 1
    /\ cal_first' = ~wallclock.synced
    /\ ncals' = ncals + 1
    /\ UNCHANGED <<rd_pc, rd_mono, rd_loaded, rd_overlap, rd_result>>
    /\ UNCHANGED <<sync_vars, task_vars, share_vars, stack_ops, clock_vars, conn_vars, fn_vars, aux_vars>>

\* the writer performs its next store; after the fourth the call returns
cal_store ==
    /\ cal_pc \in 1..4
    /\ wallclock' = [wallclock EXCEPT ![store_field(cal_pc)] = cal_args[store_field(cal_pc)]]
    /\ cal_pc' = IF cal_pc = 4 THEN 0 ELSE cal_pc + 1
    /\ rd_overlap' = IF rd_pc \in {"secs", "micros", "mono"}
                     THEN rd_overlap \cup {CallKind} ELSE rd_overlap
    /\ UNCHANGED <<cal_args, cal_first, cal_history, ncals, rd_pc, rd_mono, rd_loaded, rd_result>>
    /\ UNCHANGED <<sync_pc, client, sync_caller, server, attempt, attempts, timeouts, backoffs,
                   last_err, last_reply, sync_result, sync_ts, rtc, nsyncs>>
    /\ UNCHANGED <<task_vars, share_vars, stack_ops, clock_vars, conn_vars, fn_vars, aux_vars>>

\* the reader performs its next load: TIME_SYNCED first (returning (0, 0)
\* when it is false), then the three base values, then the arithmetic
rd_load ==
    /\ rd_pc \in {"idle", "secs", "micros", "mono"}
    /\ \E m \in {U32(0, 100), U32(0, 296)} :
          rd_mono' = IF rd_pc = "idle" THEN m ELSE rd_mono
    /\ LET f == load_field(rd_pc)
           loaded == [rd_loaded EXCEPT ![f] = wallclock[f]]
           returns == (rd_pc = "idle" /\ ~wallclock.synced) \/ rd_pc = "mono"
       IN /\ rd_loaded' = loaded
          /\ rd_pc' = IF returns THEN "done" ELSE load_next(rd_pc)
          /\ rd_result' = IF returns THEN now_unix_time(loaded, rd_mono') ELSE rd_result
    /\ rd_overlap' = IF cal_pc \in 2..4 THEN rd_overlap \cup {CallKind} ELSE rd_overlap
    /\ UNCHANGED <<cal_pc, cal_args, cal_first, cal_history, ncals>>
    /\ UNCHANGED <<sync_vars, task_vars, share_vars, stack_ops, clock_vars, conn_vars, fn_vars, aux_vars>>

----------------------------------------------------------------------------
(* Secure connections: MqttClient::connect (network/mqtt.rs) and           *)
(* TlsClient::test_handshake (network/tls.rs) over the static buffer pair  *)
(* of tls_buffers.rs                                                       *)

NoOps == [dns |-> 0, tcp |-> 0, handshake |-> 0, mqtt |-> 0]

\* The function returns: its locals are dropped, and with them the
\* TlsConnection that borrowed the buffer pair.
drop_locals_keeps_session(sessions, call) == sessions
drop_locals(sessions, call) == sessions \ {call}

\* tls_connection.open(..).await.map_err(|e| TlsError::HandshakeFailed)?
handshake_failed_keeps_session(sessions, call) ==
    [pc |-> "returned", result |-> "Tls(HandshakeFailed)", sessions |-> sessions]
handshake_failed(sessions, call) ==
    [pc |-> "returned", result |-> "Tls(HandshakeFailed)",
     sessions |-> drop_locals(sessions, call)]

\* mqtt_client.connect(..).await.map_err(|e| MqttError::ConnectionFailed)?
mqtt_connect_failed_retries(sessions, call) ==
    [pc |-> "mqtt_connect", result |-> "none", sessions |-> sessions]
mqtt_connect_failed(sessions, call) ==
    [pc |-> "returned", result |-> "Mqtt(ConnectionFailed)",
     sessions |-> drop_locals(sessions, call)]

\* one step of a call with its outcome
Step(name, outcome) == [name |-> name, outcome |-> outcome]

\* socket.connect(endpoint).await?: on success the function goes on to
\* tls_buffers::tls_buffers() and TlsConnection::new(socket, read_buf, write_buf)
socket_connected(sessions, call) ==
    [pc |-> "handshake", result |-> "none", sessions |-> sessions \cup {call}]
\* a transport failure that is logged and not returned
socket_connect_failed_goes_on(sessions, call) == socket_connected(sessions, call)
socket_connect_failed(sessions, call) ==
    [pc |-> "returned", result |-> "SocketError", sessions |-> sessions]

\* stack.dns_query(host, A).await, then .first()
conn_dns ==
    /\ conn_pc = "dns"
    /\ conn_ops' = [conn_ops EXCEPT !.dns = @ + 1]
    /\ \E o \in {"ok", "err", "empty"} :
          /\ conn_steps' = Append(conn_steps, Step("resolve", o))
          /\ IF o = "ok"
             THEN conn_pc' = "tcp" /\ UNCHANGED conn_result
             ELSE conn_pc' = "returned" /\ conn_result' = "DnsError"
    /\ UNCHANGED <<conn_owner, conn_fn, conn_history, tls_sessions, nconnects>>
    /\ UNCHANGED <<sync_vars, task_vars, share_vars, stack_ops, clock_vars, fn_vars, torn_vars, aux_vars>>

\* socket.connect(endpoint).await?; then tls_buffers::tls_buffers() and
\* TlsConnection::new(socket, read_buf, write_buf)
conn_tcp ==
    /\ conn_pc = "tcp"
    /\ conn_ops' = [conn_ops EXCEPT !.tcp = @ + 1]
    /\ \E o \in {"ok", "err"} :
          LET r == IF o = "ok" THEN socket_connected(tls_sessions, nconnects)
                   ELSE socket_connect_failed(tls_sessions, nconnects)
          IN /\ conn_pc' = r.pc
             /\ conn_result' = r.result
             /\ tls_sessions' = r.sessions
             /\ conn_steps' = conn_steps \o <<Step("transport_connect", o)>>
                                 \o (IF r.pc = "handshake"
                                     THEN <<Step("acquire_buffers", "ok")>> ELSE <<>>)
    /\ UNCHANGED <<conn_owner, conn_fn, conn_history, nconnects>>
    /\ UNCHANGED <<sync_vars, task_vars, share_vars, stack_ops, clock_vars, fn_vars, torn_vars, aux_vars>>

\* tls_connection.open(tls_context).await
conn_handshake ==
    /\ conn_pc = "handshake"
    /\ conn_ops' = [conn_ops EXCEPT !.handshake = @ + 1]
    /\ \E o \in {"ok", "err"} :
          /\ conn_steps' = Append(conn_steps, Step("handshake", o))
          /\ IF o = "ok"
             THEN /\ conn_pc' = IF conn_fn = "connect" THEN "mqtt_connect" ELSE "close"
                  /\ UNCHANGED <<conn_result, tls_sessions>>
             ELSE LET r == handshake_failed(tls_sessions, nconnects)
                  IN /\ conn_pc' = r.pc
                     /\ conn_result' = r.result
                     /\ tls_sessions' = r.sessions
    /\ UNCHANGED <<conn_owner, conn_fn, conn_history, nconnects>>
    /\ UNCHANGED <<sync_vars, task_vars, share_vars, stack_ops, clock_vars, fn_vars, torn_vars, aux_vars>>

\* MqttClient::connect after the handshake: the client id as MqttString
\* (ProtocolError when that fails), then mqtt_client.connect(..).await
conn_mqtt ==
    /\ conn_pc = "mqtt_connect"
    /\ \E o \in {"ok", "id_err", "err"} :
          IF o = "id_err"
          THEN /\ conn_pc' = "returned"
               /\ conn_result' = "Mqtt(ProtocolError)"
               /\ tls_sessions' = drop_locals(tls_sessions, nconnects)
               /\ UNCHANGED <<conn_ops, conn_steps>>
          ELSE /\ conn_ops' = [conn_ops EXCEPT !.mqtt = @ + 1]
               /\ conn_steps' = Append(conn_steps, Step("session_connect", o))
               /\ IF o = "ok"
                  THEN /\ conn_pc' = "returned"
                       /\ conn_result' = "Ok"
                       /\ tls_sessions' = drop_locals(tls_sessions, nconnects)
                  ELSE LET r == mqtt_connect_failed(tls_sessions, nconnects)
                       IN /\ conn_pc' = r.pc
                          /\ conn_result' = r.result
                          /\ tls_sessions' = r.sessions
    /\ UNCHANGED <<conn_owner, conn_fn, conn_history, nconnects>>
    /\ UNCHANGED <<sync_vars, task_vars, share_vars, stack_ops, clock_vars, fn_vars, torn_vars, aux_vars>>

\* TlsClient::test_handshake after the handshake: tls_connection.close().await,
\* which consumes the connection
conn_close ==
    /\ conn_pc = "close"
    /\ \E o \in {"ok", "err"} :
          /\ conn_result' = IF o = "ok" THEN "Ok" ELSE "Tls(ConnectionClosed)"
          /\ conn_steps' = Append(conn_steps, Step("close", o))
    /\ conn_pc' = "returned"
    /\ tls_sessions' = drop_locals(tls_sessions, nconnects)
    /\ UNCHANGED <<conn_owner, conn_fn, conn_ops, conn_history, nconnects>>
    /\ UNCHANGED <<sync_vars, task_vars, share_vars, stack_ops, clock_vars, fn_vars, torn_vars, aux_vars>>

\* The unit that owns the connection attempts.  It makes one call at a time
\* and awaits it; when the call returns it logs the result and goes on with
\* its loop.
owner_connect ==
    /\ IF conn_owner = "loop"
       THEN /\ conn_pc = "idle"
            /\ nconnects < MaxConnects
            /\ \E f \in {"connect", "test_handshake"} : conn_fn' = f
            /\ conn_owner' = "in_connect"
            /\ conn_pc' = "dns"
            /\ conn_ops' = NoOps
            /\ conn_steps' = <<>>
            /\ conn_result' = "none"
            /\ nconnects' = nconnects + 1
            /\ UNCHANGED <<conn_history, tls_sessions>>
       ELSE /\ conn_owner = "in_connect"
            /\ conn_pc = "returned"
            /\ conn_owner' = "loop"
            /\ conn_pc' = "idle"
            /\ conn_history' = Append(conn_history, conn_result)
            /\ UNCHANGED <<conn_fn, conn_ops, conn_steps, conn_result, tls_sessions, nconnects>>
    /\ UNCHANGED <<sync_vars, task_vars, share_vars, stack_ops, clock_vars, fn_vars, torn_vars, aux_vars>>

\* MqttClient::publish(topic, payload, qos, retain): a placeholder that
\* warns and returns Err(MqttError::PublishFailed), whatever preceded it
publish_after_connect(last_connect, qos, retain) ==
    IF last_connect = "Ok" THEN "Ok" ELSE "Mqtt(PublishFailed)"
publish(last_connect, qos, retain) == "Mqtt(PublishFailed)"

\* The owning unit calls publish between two connect calls (both take
\* &mut self, so a publish never runs inside a connect).
owner_publish ==
    /\ conn_owner = "loop"
    /\ conn_fn = "connect"
    /\ LET last == IF conn_history = <<>> THEN "none"
                   ELSE conn_history[Len(conn_history)]
       IN \E qos \in 0..2, retain \in BOOLEAN :
             publish_call' = [called |-> TRUE, after |-> last,
                              result |-> publish(last, qos, retain)]
    /\ UNCHANGED <<sync_vars, task_vars, share_vars, stack_ops, clock_vars, conn_vars,
                   fn_vars, torn_vars, loop_vars, rtcdrv_vars, mon_vars>>

----------------------------------------------------------------------------
(* The RTIC tasks of main.rs *)

\* rtic_sync Sender::send(val).await: the value is queued when there is
\* room; when the queue is full the sender waits for room; the result is an
\* error only when the Receiver has been dropped, which network_task never
\* does (it never returns).
send_drop_when_full(q, msg) ==
    IF Len(q) < CHANNEL_CAPACITY
    THEN [q |-> Append(q, msg), pc |-> "delay", err |-> FALSE]
    ELSE [q |-> q, pc |-> "delay", err |-> TRUE]
send(q, msg) ==
    IF Len(q) < CHANNEL_CAPACITY
    THEN [q |-> Append(q, msg), pc |-> "delay", err |-> FALSE]
    ELSE [q |-> q, pc |-> "send_wait", err |-> FALSE]

\* panic_probe halts the firmware when network_task unwraps a failed
\* W5500 initialisation
Running == owner_pc # "panicked"

\* sntp_resync: Mono::delay(15.minutes()), then send(SntpSync), warn on Err
sntp_resync ==
    /\ Running
    /\ IF resync_pc = "delay"
       THEN LET r == send(chan, "SntpSync")
            IN /\ chan' = r.q
               /\ resync_pc' = r.pc
               /\ resync_warned' = (resync_warned \/ r.err)
       ELSE /\ resync_pc = "send_wait"
            /\ Len(chan) < CHANNEL_CAPACITY
            /\ chan' = Append(chan, "SntpSync")
            /\ resync_pc' = "delay"
            /\ UNCHANGED resync_warned
    /\ UNCHANGED <<sync_vars, owner_vars, logger_pc, share_vars, clock_vars, conn_vars, fn_vars, torn_vars, stack_ops, aux_vars>>

\* frame_logger: Mono::delay(5.secs()), then send(LogFrame { .. }).await.ok()
frame_logger ==
    /\ Running
    /\ IF logger_pc = "delay"
       THEN LET r == send(chan, "LogFrame")
            IN /\ chan' = r.q
               /\ logger_pc' = r.pc
       ELSE /\ logger_pc = "send_wait"
            /\ Len(chan) < CHANNEL_CAPACITY
            /\ chan' = Append(chan, "LogFrame")
            /\ logger_pc' = "delay"
    /\ UNCHANGED <<sync_vars, owner_vars, resync_vars, share_vars, clock_vars, conn_vars, fn_vars, torn_vars, stack_ops, aux_vars>>

\* network_task up to its first suspension: SPI and GPIO set-up,
\* reset.set_low(), Mono::delay(1.millis())
nt_start ==
    /\ owner_pc' = "reset_low"
    /\ owner_phases' = Append(owner_phases, "link_bringup")
    /\ UNCHANGED <<mh_pc, link_up, config_up, sync_vars, chan, stack_ops>>

\* reset.set_high(), Mono::delay(2.millis()); then embassy_net_wiznet::new
nt_reset ==
    /\ owner_pc' = IF owner_pc = "reset_low" THEN "reset_high" ELSE "wiznet_new"
    /\ UNCHANGED <<owner_phases, mh_pc, link_up, config_up, sync_vars, chan, stack_ops>>

\* embassy_net_wiznet::new(..).await.unwrap(), embassy_net::new(..), then
\* stack.wait_config_up()
nt_wiznet_new ==
    /\ \E ok \in BOOLEAN :
          IF ok
          THEN /\ owner_pc' = "wait_config_up"
               /\ owner_phases' = Append(owner_phases, "wait_config")
               /\ stack_ops' = stack_ops \cup {<<"network_task", "wait_config_up">>}
          ELSE /\ owner_pc' = "panicked"
               /\ UNCHANGED <<owner_phases, stack_ops>>
    /\ UNCHANGED <<mh_pc, link_up, config_up, sync_vars, chan>>

\* stack.wait_config_up().await returns once the stack has its address;
\* then time::sntp::sync_sntp(&stack) is called
nt_wait_config_up ==
    /\ config_up
    /\ SyncCall("sync_sntp", "network_task")
    /\ owner_pc' = "first_sync"
    /\ owner_phases' = Append(owner_phases, "first_sync")
    /\ stack_ops' = stack_ops \cup {<<"network_task", "sync_sntp">>}
    /\ UNCHANGED <<mh_pc, link_up, config_up, chan>>

\* sync_sntp(&stack).await returns (Ok or Err, both only logged); then
\* join3(w5500_runner.run(), net_runner.run(), message_handler)
nt_first_sync ==
    /\ sync_pc = "idle"
    /\ owner_pc' = "join3"
    /\ owner_phases' = Append(owner_phases, "message_loop")
    /\ UNCHANGED <<mh_pc, link_up, config_up, sync_vars, chan, stack_ops>>

\* message_handler: receiver.recv().await, then the match on the message.
\* (recv returns Err only when every Sender is dropped; sntp_resync and
\* frame_logger never return, so they keep theirs.)
message_handler ==
    IF mh_pc = "recv"
    THEN /\ chan # <<>>
         /\ chan' = Tail(chan)
         /\ IF Head(chan) = "SntpSync"
            THEN /\ SyncCall("sync_sntp", "network_task")
                 /\ mh_pc' = "sync"
                 /\ stack_ops' = stack_ops \cup {<<"network_task", "sync_sntp">>}
            ELSE UNCHANGED <<mh_pc, sync_vars, stack_ops>>
         /\ UNCHANGED <<link_up, config_up>>
    ELSE /\ mh_pc = "sync"
         /\ sync_pc = "idle"
         /\ mh_pc' = "recv"
         /\ UNCHANGED <<link_up, config_up, sync_vars, chan, stack_ops>>

\* join3 polls its three futures: the link driver (w5500_runner.run()), the
\* IP stack (net_runner.run(), which obtains the DHCP configuration once the
\* link is up) and message_handler
nt_join3 ==
    /\ \E f \in {"w5500_runner", "net_runner", "message_handler"} :
          IF f = "w5500_runner"
          THEN /\ link_up' = TRUE
               /\ UNCHANGED <<mh_pc, config_up, sync_vars, chan, stack_ops>>
          ELSE IF f = "net_runner"
          THEN /\ config_up' = (config_up \/ link_up)
               /\ UNCHANGED <<mh_pc, link_up, sync_vars, chan, stack_ops>>
          ELSE message_handler
    /\ UNCHANGED <<owner_pc, owner_phases>>

\* One poll of network_task: it resumes where it is suspended.
network_task ==
    /\ IF owner_pc = "start" THEN nt_start
       ELSE IF owner_pc \in {"reset_low", "reset_high"} THEN nt_reset
       ELSE IF owner_pc = "wiznet_new" THEN nt_wiznet_new
       ELSE IF owner_pc = "wait_config_up" THEN nt_wait_config_up
       ELSE IF owner_pc = "first_sync" THEN nt_first_sync
       ELSE IF owner_pc = "join3" THEN nt_join3
       ELSE FALSE
    /\ UNCHANGED <<resync_vars, logger_pc, share_vars, clock_vars, conn_vars, fn_vars, torn_vars, aux_vars>>

----------------------------------------------------------------------------
(* The snapshot in which the stack is shared: net.rs and time/mod.rs *)

\* register_stack: ccmram::set_network_stack(stack), called by the unit that
\* built the stack
register_stack ==
    /\ ~stack_registered
    /\ stack_registered' = TRUE
    /\ UNCHANGED <<rs_pc, sync_vars, task_vars, stack_ops, clock_vars, conn_vars, fn_vars, torn_vars,
                   aux_vars>>

\* run_sntp_resync_task: poll ccmram::get_network_stack() every 100 ms until
\* it is Some, stack.wait_config_up().await, Timer::after_secs(30), then
\* every 15 minutes sync_sntp(stack).await
run_sntp_resync_task ==
    /\ IF rs_pc = "poll_stack"
       THEN /\ stack_registered
            /\ rs_pc' = "wait_config_up"
            /\ stack_ops' = stack_ops \cup {<<"run_sntp_resync_task", "get_network_stack">>,
                                            <<"run_sntp_resync_task", "wait_config_up">>}
            /\ UNCHANGED sync_vars
       ELSE IF rs_pc = "wait_config_up"
       THEN /\ rs_pc' = "initial_delay"
            /\ UNCHANGED <<sync_vars, stack_ops>>
       ELSE IF rs_pc = "initial_delay"
       THEN /\ rs_pc' = "interval"
            /\ UNCHANGED <<sync_vars, stack_ops>>
       ELSE IF rs_pc = "interval"
       THEN /\ SyncCall("sync_sntp", "run_sntp_resync_task")
            /\ rs_pc' = "sync"
            /\ stack_ops' = stack_ops \cup {<<"run_sntp_resync_task", "sync_sntp">>}
       ELSE /\ rs_pc = "sync"
            /\ sync_pc = "idle"
            /\ rs_pc' = "interval"
            /\ UNCHANGED <<sync_vars, stack_ops>>
    /\ UNCHANGED <<stack_registered, task_vars, clock_vars, conn_vars, fn_vars, torn_vars,
                   aux_vars>>

----------------------------------------------------------------------------
----------------------------------------------------------------------------
(* Topic construction: format_mqtt_topic (boards network/mqtt.rs) *)

\* A &str is a sequence of one-character strings; "NUL" stands for '\0'.
Repeat(c, n) == [i \in 1..n |-> c]

Alphabet == {"a", "/", "+", "#", "NUL"}

ShortStrs == {<<>>} \cup {<<c>> : c \in Alphabet}
                 \cup {<<c, e>> : c \in Alphabet, e \in Alphabet}

\* client ids: short ones over the alphabet, ids around the length at which
\* "device/<id>/telemetry" stops fitting, the over-long id of the unit test,
\* and long ids carrying a wildcard
ClientIds ==
    ShortStrs \cup {Repeat("a", n) : n \in {17, 46, 47, 48, 56, 57, 93}}
              \cup {Repeat("a", 93) \o <<"+">>, <<"#">> \o Repeat("a", 47)}

Telemetry == <<"t", "e", "l", "e", "m", "e", "t", "r", "y">>

Subtopics ==
    ShortStrs \cup {Telemetry, <<"s", "t", "a", "t", "u", "s">>, Telemetry \o <<"+">>,
                    Repeat("a", 10), Repeat("a", 60)}

\* str::contains(char)
contains(str, c) == \E i \in 1..Len(str) : str[i] = c

TopicOk(t) == [ok |-> TRUE, err |-> "none", topic |-> t]
TopicErr(e) == [ok |-> FALSE, err |-> e, topic |-> <<>>]

\* heapless String::<MAX_TOPIC_LEN>::push_str with .map_err(|_| BufferError):
\* appends the whole of str, or nothing when it does not fit
push_str(r, str) ==
    IF ~r.ok THEN r
    ELSE IF Len(r.topic) + Len(str) > MAX_TOPIC_LEN THEN TopicErr("BufferError")
    ELSE TopicOk(r.topic \o str)

DevicePrefix == <<"d", "e", "v", "i", "c", "e", "/">>

format_mqtt_topic_subtopic_unchecked(client_id, subtopic) ==
    IF contains(client_id, "+") \/ contains(client_id, "#") \/ contains(client_id, "NUL")
    THEN TopicErr("ProtocolError")
    ELSE push_str(push_str(push_str(push_str(TopicOk(<<>>), DevicePrefix),
                                    client_id), <<"/">>), subtopic)

\* the buffer filled before the characters are checked
format_mqtt_topic_length_first(client_id, subtopic) ==
    LET r == push_str(push_str(push_str(push_str(TopicOk(<<>>), DevicePrefix),
                                        client_id), <<"/">>), subtopic)
    IN IF ~r.ok THEN r
       ELSE IF \E c \in {"+", "#", "NUL"} : contains(client_id, c) \/ contains(subtopic, c)
       THEN TopicErr("ProtocolError")
       ELSE r
format_mqtt_topic(client_id, subtopic) ==
    IF contains(client_id, "+") \/ contains(client_id, "#") \/ contains(client_id, "NUL")
    THEN TopicErr("ProtocolError")
    ELSE IF contains(subtopic, "+") \/ contains(subtopic, "#") \/ contains(subtopic, "NUL")
    THEN TopicErr("ProtocolError")
    ELSE push_str(push_str(push_str(push_str(TopicOk(<<>>), DevicePrefix),
                                    client_id), <<"/">>), subtopic)

NoTopicCall == [called |-> FALSE, client_id |-> <<>>, subtopic |-> <<>>,
                result |-> TopicErr("none"), uid |-> <<>>, id_panicked |-> FALSE]

\* one call of format_mqtt_topic. The function is pure: one call per
\* behaviour covers every input.
format_topic ==
    /\ ~topic_call.called
    /\ \E id \in ClientIds, sub \in Subtopics :
          topic_call' = [called |-> TRUE, client_id |-> id, subtopic |-> sub,
                         result |-> format_mqtt_topic(id, sub),
                         uid |-> <<>>, id_panicked |-> FALSE]
    /\ UNCHANGED <<sync_vars, task_vars, share_vars, stack_ops, clock_vars, conn_vars,
                   cal_call, ntp_call, torn_vars, aux_vars>>

----------------------------------------------------------------------------
(* The client identifier: device_id::mqtt_client_id *)

Stm32Prefix == <<"s", "t", "m", "3", "2", "f", "4", "0", "5", "-">>

\* embassy_stm32::uid::uid_hex(): the 96-bit device id as 24 hex characters
UidHexValues ==
    LET HexDigits == {"0", "1", "2", "3", "4", "5", "6", "7", "8", "9",
                      "a", "b", "c", "d", "e", "f"}
    IN {Repeat(a, 12) \o Repeat(b, 12) : a \in HexDigits, b \in HexDigits}

\* heapless String::<CLIENT_ID_MAX_LEN>::push_str(..).expect(..)
push_str_expect(r, str) ==
    IF r.panicked THEN r
    ELSE IF Len(r.id) + Len(str) > CLIENT_ID_MAX_LEN THEN [panicked |-> TRUE, id |-> <<>>]
    ELSE [panicked |-> FALSE, id |-> r.id \o str]

\* a prefix four characters longer
mqtt_client_id_longer_prefix(uid) ==
    push_str_expect(push_str_expect([panicked |-> FALSE, id |-> <<>>],
                                    Stm32Prefix \o <<"d", "e", "v", "-">>), uid)
mqtt_client_id(uid) ==
    push_str_expect(push_str_expect([panicked |-> FALSE, id |-> <<>>], Stm32Prefix), uid)

\* the client id of a device and one of its topics
device_topic ==
    /\ ~topic_call.called
    /\ \E uid \in UidHexValues, sub \in {Telemetry, <<"s", "t", "a", "t", "u", "s">>} :
          LET r == mqtt_client_id(uid)
          IN topic_call' = [called |-> TRUE, client_id |-> r.id, subtopic |-> sub,
                            result |-> IF r.panicked THEN TopicErr("none")
                                       ELSE format_mqtt_topic(r.id, sub),
                            uid |-> uid, id_panicked |-> r.panicked]
    /\ UNCHANGED <<sync_vars, task_vars, share_vars, stack_ops, clock_vars, conn_vars,
                   cal_call, ntp_call, torn_vars, aux_vars>>

----------------------------------------------------------------------------
(* The periodic publish loop: MqttClient::run_with_periodic_publish *)

RECURSIVE Digits(_)
\* the number of decimal digits write! produces for n
Digits(n) == IF n < 10 THEN 1 ELSE 1 + Digits(n \div 10)

\* write!(writer, "{{\"msg_id\":{},\"timestamp\":{},\"micros\":{}}}", ..) into a
\* heapless String::<128>: 34 fixed characters and three numbers
payload_len(counter, secs_digits, micros_digits) ==
    34 + Digits(counter) + secs_digits + micros_digits

\* the loop body from the timer to the publish: format_mqtt_topic, the
\* payload, then the topic as an MqttString (at most 65535 bytes)
prepare_publish(client_id, counter, secs_digits, micros_digits) ==
    LET topic == format_mqtt_topic(client_id, Telemetry)
    IN IF ~topic.ok
       THEN [pc |-> "returned",
             result |-> IF topic.err = "ProtocolError" THEN "Mqtt(ProtocolError)"
                        ELSE "Mqtt(BufferError)"]
       ELSE IF payload_len(counter, secs_digits, micros_digits) > PAYLOAD_BUF_LEN
       THEN [pc |-> "returned", result |-> "Mqtt(BufferError)"]
       ELSE IF Len(topic.topic) > 65535
       THEN [pc |-> "returned", result |-> "Mqtt(ProtocolError)"]
       ELSE [pc |-> "publish", result |-> "none"]

\* mqtt_client.publish(..).await returned: Ok logs the packet id, Err logs
\* the failure and a warning; both fall through to the next iteration
publish_failed_reconnects(connects) ==
    [pc |-> "timer", result |-> "none", connects |-> connects + 1]
publish_failed(connects) == [pc |-> "timer", result |-> "none", connects |-> connects]

\* the call up to the loop: resolve, transport connect, buffer pair,
\* handshake, client id, session connect; each failure is returned
pp_connect ==
    /\ pp_pc = "idle"
    /\ \E uid \in UidHexValues,
          o \in {"Ok", "DnsError", "SocketError", "Tls(HandshakeFailed)",
                 "Mqtt(ProtocolError)", "Mqtt(ConnectionFailed)"} :
          /\ pp_client_id' = IF o \in {"Ok", "Mqtt(ProtocolError)", "Mqtt(ConnectionFailed)"}
                              THEN mqtt_client_id(uid).id ELSE <<>>
          /\ IF o = "Ok"
             THEN pp_pc' = "timer" /\ pp_connects' = pp_connects + 1 /\ pp_result' = "none"
             ELSE pp_pc' = "returned" /\ pp_result' = o /\ UNCHANGED pp_connects
    /\ message_counter' = 0
    /\ pp_log' = <<>>
    /\ UNCHANGED <<sync_vars, task_vars, share_vars, stack_ops, clock_vars, conn_vars,
                   fn_vars, torn_vars, pub_vars, rtcdrv_vars, mon_vars>>

\* Timer::after(publish_interval_secs) fired: message_counter += 1, the
\* timestamp, the topic and the payload, up to the publish
pp_cycle ==
    /\ pp_pc = "timer"
    /\ message_counter < MaxCycles
    /\ message_counter' = message_counter + 1
    \* digits of timestamp.unix_secs (u64) and of timestamp.micros (u32)
    /\ \E d \in {<<1, 1>>, <<10, 6>>, <<20, 10>>} :
          LET r == prepare_publish(pp_client_id, message_counter', d[1], d[2])
          IN pp_pc' = r.pc /\ pp_result' = r.result
    /\ UNCHANGED <<pp_client_id, pp_connects, pp_log>>
    /\ UNCHANGED <<sync_vars, task_vars, share_vars, stack_ops, clock_vars, conn_vars,
                   fn_vars, torn_vars, pub_vars, rtcdrv_vars, mon_vars>>

\* mqtt_client.publish(&pub_options, payload).await completes
pp_publish ==
    /\ pp_pc = "publish"
    /\ \E o \in {"ok", "err"} :
          LET r == IF o = "ok"
                   THEN [pc |-> "timer", result |-> "none", connects |-> pp_connects]
                   ELSE publish_failed(pp_connects)
          IN /\ pp_pc' = r.pc
             /\ pp_result' = r.result
             /\ pp_connects' = r.connects
             /\ pp_log' = Append(pp_log, [msg_id |-> message_counter, outcome |-> o,
                                          session |-> pp_connects'])
    /\ UNCHANGED <<pp_client_id, message_counter>>
    /\ UNCHANGED <<sync_vars, task_vars, share_vars, stack_ops, clock_vars, conn_vars,
                   fn_vars, torn_vars, pub_vars, rtcdrv_vars, mon_vars>>

----------------------------------------------------------------------------
(* Calendar conversions (boards time/calendar.rs) *)

\* unix_secs is a u64 held as the limbs of U32: the supported range ends
\* below 2^32 and no intermediate value here may exceed 2^31.
\* 86400 = 128 * 675 and 65536 = 128 * 512.
div_86400(v) == (v.hi * 512 + (v.lo \div 128)) \div 675
mod_86400(v) == ((v.hi * 512 + (v.lo \div 128)) % 675) * 128 + (v.lo % 128)

\* days * SECONDS_PER_DAY + secs as limbs
mul_86400_add(days, secs) ==
    LET t == days * 675 + (secs \div 128)
    IN  U32(t \div 512, (t % 512) * 128 + (secs % 128))

\* the low halves of the timestamps tried; with every high half they reach
\* every day of the range, and the timestamps of the round-trip unit test
LoValues == {0, 17280, 22272, 65535}

UnixSecsValues ==
    {u \in {U32(h, l) : h \in 0..65535, l \in LoValues} : div_86400(u) <= MaxDay}

\* integer division of i32 operands truncates toward zero
trunc_div(a, b) == IF a >= 0 THEN a \div b ELSE -((-a) \div b)

is_multiple_of(n, k) == n % k = 0

is_leap_year(year) ==
    (is_multiple_of(year, 4) /\ ~is_multiple_of(year, 100)) \/ is_multiple_of(year, 400)

civil_from_days_no_century_term(days_since_epoch) ==
    LET z == days_since_epoch + 719468
        era == trunc_div(IF z >= 0 THEN z ELSE z - 146096, 146097)
        doe == z - era * 146097
        yoe == (doe - (doe \div 1460)) \div 365
        y == yoe + era * 400
        doy == doe - (365 * yoe + (yoe \div 4))
        mp == (5 * doy + 2) \div 153
        d == doy - ((153 * mp + 2) \div 5) + 1
        m == IF mp < 10 THEN mp + 3 ELSE mp - 9
        year == IF m <= 2 THEN y + 1 ELSE y
    IN  <<year, m, d>>

civil_from_days(days_since_epoch) ==
    LET z == days_since_epoch + 719468
        era == trunc_div(IF z >= 0 THEN z ELSE z - 146096, 146097)
        doe == z - era * 146097
        yoe == (doe - (doe \div 1460) + (doe \div 36524) - (doe \div 146096)) \div 365
        y == yoe + era * 400
        doy == doe - (365 * yoe + (yoe \div 4) - (yoe \div 100))
        mp == (5 * doy + 2) \div 153
        d == doy - ((153 * mp + 2) \div 5) + 1
        m == IF mp < 10 THEN mp + 3 ELSE mp - 9
        year == IF m <= 2 THEN y + 1 ELSE y
    IN  <<year, m, d>>

days_from_civil_no_century_term(year, month, day) ==
    LET y == IF month <= 2 THEN year - 1 ELSE year
        m == IF month <= 2 THEN month + 9 ELSE month - 3
        era == trunc_div(IF y >= 0 THEN y ELSE y - 399, 400)
        yoe == y - era * 400
        doy == ((153 * m + 2) \div 5) + day - 1
        doe == yoe * 365 + (yoe \div 4) + doy
    IN  era * 146097 + doe - 719468

days_from_civil(year, month, day) ==
    LET y == IF month <= 2 THEN year - 1 ELSE year
        m == IF month <= 2 THEN month + 9 ELSE month - 3
        era == trunc_div(IF y >= 0 THEN y ELSE y - 399, 400)
        yoe == y - era * 400
        doy == ((153 * m + 2) \div 5) + day - 1
        doe == yoe * 365 + (yoe \div 4) - (yoe \div 100) + doy
    IN  era * 146097 + doe - 719468

DateTime(year, month, day, hour, minute, second) ==
    [year |-> year, month |-> month, day |-> day,
     hour |-> hour, minute |-> minute, second |-> second]

\* DateTime::from(..) is Err when a field is outside its calendar range
datetime_fields_valid(dt) ==
    /\ dt.year <= 4095
    /\ dt.month \in 1..12
    /\ dt.day \in 1..31
    /\ dt.hour <= 23
    /\ dt.minute <= 59
    /\ dt.second <= 59

unix_to_datetime(unix_secs) ==
    LET days_since_epoch == div_86400(unix_secs)
        secs_today == mod_86400(unix_secs)
        hour == secs_today \div 3600
        minute == (secs_today % 3600) \div 60
        second == secs_today % 60
        ymd == civil_from_days(days_since_epoch)
        dt == DateTime(ymd[1], ymd[2], ymd[3], hour, minute, second)
    IN  IF datetime_fields_valid(dt) THEN dt ELSE DateTime(1970, 1, 1, 0, 0, 0)

datetime_to_unix(dt) ==
    mul_86400_add(days_from_civil(dt.year, dt.month, dt.day),
                  dt.hour * 3600 + dt.minute * 60 + dt.second)

\* what the conversions of time.rs gave for the same timestamp
NoIter == [called |-> FALSE, panicked |-> FALSE, dt |-> DateTime(1970, 1, 1, 0, 0, 0),
           back |-> U32(0, 0)]

NoCalCall == [called |-> FALSE, unix_secs |-> U32(0, 0), civil |-> <<1970, 1, 1>>,
              leap |-> FALSE, dt |-> DateTime(1970, 1, 1, 0, 0, 0),
              back |-> U32(0, 0), iter |-> NoIter]

\* unix_to_datetime of a timestamp, then datetime_to_unix of its result.
\* The functions are pure: one conversion per behaviour covers every input.
round_trip ==
    /\ ~cal_call.called
    /\ \E u \in UnixSecsValues :
          LET dt == unix_to_datetime(u)
              ymd == civil_from_days(div_86400(u))
          IN  cal_call' = [called |-> TRUE, unix_secs |-> u, civil |-> ymd,
                           leap |-> is_leap_year(ymd[1]), dt |-> dt,
                           back |-> datetime_to_unix(dt), iter |-> NoIter]
    /\ UNCHANGED <<sync_vars, task_vars, share_vars, stack_ops, clock_vars, conn_vars,
                   topic_call, ntp_call, torn_vars, aux_vars>>

----------------------------------------------------------------------------
(* The year-by-year conversions of time.rs *)

UNIX_EPOCH_YEAR == 1970

RECURSIVE year_loop(_, _)
\* loop { if days < days_in_year { break; } days -= days_in_year; year += 1; }
year_loop(days, year) ==
    LET days_in_year == IF is_leap_year(year) THEN 366 ELSE 365
    IN IF days < days_in_year THEN <<year, days>>
       ELSE year_loop(days - days_in_year, year + 1)

days_in_months(year) ==
    IF is_leap_year(year) THEN <<31, 29, 31, 30, 31, 30, 31, 31, 30, 31, 30, 31>>
    ELSE <<31, 28, 31, 30, 31, 30, 31, 31, 30, 31, 30, 31>>

RECURSIVE month_loop(_, _, _, _)
\* for days_in_month in days_in_months.iter()
\*     { if day <= *days_in_month { break; } day -= days_in_month; month += 1; }
month_loop(day, month, i, dim) ==
    IF i > 12 \/ day <= dim[i] THEN <<month, day>>
    ELSE month_loop(day - dim[i], month + 1, i + 1, dim)

\* time.rs unix_to_datetime.  `days as u8 + 1` keeps the low 8 bits of the
\* day of the year; when they are 255 the addition overflows the u8, which
\* panics in a build with overflow checks and gives 0 in one without.
time_rs_unix_to_datetime(unix_secs, overflow_checks) ==
    LET secs_today == mod_86400(unix_secs)
        hour == secs_today \div 3600
        minute == (secs_today % 3600) \div 60
        second == secs_today % 60
        yd == year_loop(div_86400(unix_secs), UNIX_EPOCH_YEAR)
        year == yd[1]
        days_as_u8 == yd[2] % 256
        md == month_loop((days_as_u8 + 1) % 256, 1, 1, days_in_months(year))
        dt == DateTime(year, md[1], md[2], hour, minute, second)
    IN IF days_as_u8 = 255 /\ overflow_checks
       THEN [panicked |-> TRUE, dt |-> DateTime(1970, 1, 1, 0, 0, 0)]
       ELSE [panicked |-> FALSE,
             dt |-> IF datetime_fields_valid(dt) THEN dt
                    ELSE DateTime(1970, 1, 1, 0, 0, 0)]

RECURSIVE days_before_year(_, _)
\* for y in UNIX_EPOCH_YEAR..dt.year() { days += 366 or 365 }
days_before_year(y, year) ==
    IF y >= year THEN 0
    ELSE (IF is_leap_year(y) THEN 366 ELSE 365) + days_before_year(y + 1, year)

RECURSIVE days_before_month(_, _, _)
\* for m in 0..(dt.month() - 1) { days += days_in_months[m] }
days_before_month(m, month, dim) ==
    IF m >= month THEN 0 ELSE dim[m] + days_before_month(m + 1, month, dim)

\* time.rs datetime_to_unix
time_rs_datetime_to_unix(dt) ==
    mul_86400_add(days_before_year(UNIX_EPOCH_YEAR, dt.year)
                      + days_before_month(1, dt.month, days_in_months(dt.year))
                      + (dt.day - 1),
                  dt.hour * 3600 + dt.minute * 60 + dt.second)

\* the timestamps converted: the first and the last second of every day of
\* the first year, a leap year, the year 2000 and the year 2038
IterSecsValues ==
    LET IterYears == {1970, 1972, 2000, 2038}
    IN {mul_86400_add(days_from_civil(y, 1, 1) + d, s) :
           y \in IterYears, d \in 0..364, s \in {0, 86399}}
       \cup {mul_86400_add(days_from_civil(y, 12, 31), s) :
                y \in IterYears, s \in {0, 86399}}

\* one timestamp converted by time.rs (both ways) and by calendar.rs
iter_round_trip ==
    /\ ~cal_call.called
    /\ \E u \in IterSecsValues, overflow_checks \in BOOLEAN :
          LET r == time_rs_unix_to_datetime(u, overflow_checks)
              ymd == civil_from_days(div_86400(u))
              dt == unix_to_datetime(u)
          IN  cal_call' = [called |-> TRUE, unix_secs |-> u, civil |-> ymd,
                           leap |-> is_leap_year(ymd[1]), dt |-> dt,
                           back |-> datetime_to_unix(dt),
                           iter |-> [called |-> TRUE, panicked |-> r.panicked, dt |-> r.dt,
                                     back |-> time_rs_datetime_to_unix(r.dt)]]
    /\ UNCHANGED <<sync_vars, task_vars, share_vars, stack_ops, clock_vars, conn_vars,
                   topic_call, ntp_call, torn_vars, aux_vars>>

----------------------------------------------------------------------------
(* The backup clock: write_rtc and read_rtc (time/rtc.rs)                  *)

NoRtcCall == [seq |-> 0, fn |-> "none", hw_ok |-> FALSE, read_hw |-> FALSE,
              result |-> "none", ts |-> [unix_secs |-> U32(0, 0), micros |-> 0]]

\* write_rtc(rtc, timestamp): the flag is stored after the `?` of
\* rtc.set_datetime(datetime).map_err(|_| RtcError::HardwareError)
write_rtc_flag_before_write(synced, hw, timestamp, hw_ok) ==
    LET datetime == unix_to_datetime(timestamp.unix_secs)
    IN IF ~hw_ok THEN [result |-> "HardwareError", synced |-> TRUE, hw |-> hw]
       ELSE [result |-> "Ok", synced |-> TRUE, hw |-> datetime]
write_rtc(synced, hw, timestamp, hw_ok) ==
    LET datetime == unix_to_datetime(timestamp.unix_secs)
    IN IF ~hw_ok THEN [result |-> "HardwareError", synced |-> synced, hw |-> hw]
       ELSE [result |-> "Ok", synced |-> TRUE, hw |-> datetime]

\* read_rtc(rtc): NotSynced before anything else when the flag is false;
\* otherwise rtc.now(), Timestamp::from_datetime and the three cache stores
read_rtc(synced, hw, cached, hw_ok, microsecond) ==
    IF ~synced
    THEN [result |-> "NotSynced", read_hw |-> FALSE, cached |-> cached, ts |-> NoRtcCall.ts]
    ELSE IF ~hw_ok
    THEN [result |-> "HardwareError", read_hw |-> TRUE, cached |-> cached, ts |-> NoRtcCall.ts]
    ELSE LET timestamp == [unix_secs |-> datetime_to_unix(hw), micros |-> microsecond]
         IN [result |-> "Ok", read_hw |-> TRUE, cached |-> timestamp, ts |-> timestamp]

\* a caller writes the backup clock
write_rtc_call ==
    \* the timestamps written: 1970, 2024-01-01 00:00:00 and 2036-02-07 06:28:15
    /\ \E u \in {U32(0, 0), U32(26002, 128), U32(31829, 33151)}, hw_ok \in BOOLEAN :
          LET timestamp == [unix_secs |-> u, micros |-> 0]
              r == write_rtc(wallclock.synced, hw_datetime, timestamp, hw_ok)
          IN /\ wallclock' = [wallclock EXCEPT !.synced = r.synced]
             /\ hw_datetime' = r.hw
             /\ rtc_call' = [seq |-> 1 - rtc_call.seq, fn |-> "write_rtc", hw_ok |-> hw_ok,
                             read_hw |-> FALSE, result |-> r.result, ts |-> timestamp]
    /\ UNCHANGED cached_timestamp
    /\ UNCHANGED <<sync_pc, client, sync_caller, server, attempt, attempts, timeouts, backoffs,
                   last_err, last_reply, sync_result, sync_ts, rtc, nsyncs>>
    /\ UNCHANGED <<task_vars, share_vars, stack_ops, clock_vars, conn_vars, fn_vars, torn_vars,
                   pub_vars, loop_vars, mon_vars>>

\* a caller reads the backup clock
read_rtc_call ==
    \* us: datetime.microsecond() of the hardware reading
    /\ \E hw_ok \in BOOLEAN, us \in {0, 500000, 999999} :
          LET r == read_rtc(wallclock.synced, hw_datetime, cached_timestamp, hw_ok, us)
          IN /\ cached_timestamp' = r.cached
             /\ rtc_call' = [seq |-> 1 - rtc_call.seq, fn |-> "read_rtc", hw_ok |-> hw_ok,
                             read_hw |-> r.read_hw, result |-> r.result, ts |-> r.ts]
    /\ UNCHANGED hw_datetime
    /\ UNCHANGED <<sync_vars, task_vars, share_vars, stack_ops, clock_vars, conn_vars, fn_vars,
                   torn_vars, pub_vars, loop_vars, mon_vars>>

----------------------------------------------------------------------------
(* The network monitor: run_network_monitor and NETWORK_CHANNEL (net.rs)   *)

\* A task sends a LogFrame message; messages are numbered in sending order.
mon_send ==
    /\ mon_sent < MaxMessages
    /\ Len(mon_chan) < NETWORK_CHANNEL_CAPACITY
    /\ mon_sent' = mon_sent + 1
    /\ mon_chan' = Append(mon_chan, mon_sent + 1)
    /\ UNCHANGED <<mon_pc, mon_handled, mon_dropped>>
    /\ UNCHANGED <<sync_vars, task_vars, share_vars, stack_ops, clock_vars, conn_vars, fn_vars,
                   torn_vars, pub_vars, loop_vars, rtcdrv_vars>>

\* stack.wait_config_up().await, the address log and
\* time::initialize_time(stack).await, up to the first select
mon_start ==
    /\ mon_pc = "wait_config_up"
    /\ mon_pc' = "select"
    /\ UNCHANGED <<mon_chan, mon_sent, mon_handled, mon_dropped>>
    /\ UNCHANGED <<sync_vars, task_vars, share_vars, stack_ops, clock_vars, conn_vars, fn_vars,
                   torn_vars, pub_vars, loop_vars, rtcdrv_vars>>

\* select(receiver.receive(), stats_timer.next()).await completes and its
\* value is not bound: when the receive arm completed, the message it took
\* from the channel goes out of scope with the Either
select_discards(queue, dropped) ==
    IF queue # <<>>
    THEN [chan |-> Tail(queue), dropped |-> Append(dropped, Head(queue))]
    ELSE [chan |-> queue, dropped |-> dropped]

\* The receive arm is polled first and completes when a message is queued;
\* the ticker completes the select only while the channel is empty.
mon_select ==
    /\ mon_pc = "select"
    /\ LET r == select_discards(mon_chan, mon_dropped)
       IN mon_chan' = r.chan /\ mon_dropped' = r.dropped
    /\ mon_pc' = "try_receive"
    /\ UNCHANGED <<mon_sent, mon_handled>>
    /\ UNCHANGED <<sync_vars, task_vars, share_vars, stack_ops, clock_vars, conn_vars, fn_vars,
                   torn_vars, pub_vars, loop_vars, rtcdrv_vars>>

\* if let Ok(msg) = receiver.try_receive() { info!("Received frame: ..") },
\* then the statistics log and the next iteration
mon_try_receive ==
    /\ mon_pc = "try_receive"
    /\ IF mon_chan # <<>>
       THEN /\ mon_handled' = Append(mon_handled, Head(mon_chan))
            /\ mon_chan' = Tail(mon_chan)
       ELSE UNCHANGED <<mon_chan, mon_handled>>
    /\ mon_pc' = "select"
    /\ UNCHANGED <<mon_sent, mon_dropped>>
    /\ UNCHANGED <<sync_vars, task_vars, share_vars, stack_ops, clock_vars, conn_vars, fn_vars,
                   torn_vars, pub_vars, loop_vars, rtcdrv_vars>>

Init ==
    /\ sync_pc = "idle"
    /\ client = "SntpClient"
    /\ sync_caller = "none"
    /\ server = 1
    /\ attempt = 0
    /\ attempts = <<>>
    /\ timeouts = 0
    /\ backoffs = 0
    /\ last_err = "none"
    /\ last_reply = NoReply
    /\ sync_result = "none"
    /\ sync_ts = NoTimestamp
    /\ wallclock = Unsynced
    /\ rtc = [secs |-> 0, write |-> "none"]
    /\ nsyncs = 0
    /\ owner_pc = "start"
    /\ owner_phases = <<>>
    /\ mh_pc = "recv"
    /\ link_up = FALSE
    /\ config_up = FALSE
    /\ chan = <<>>
    /\ resync_pc = "delay"
    /\ resync_warned = FALSE
    /\ logger_pc = "delay"
    /\ stack_ops = {}
    /\ stack_registered = FALSE
    /\ rs_pc = "poll_stack"
    /\ now_call = NoCall
    /\ readings = <<>>
    /\ conn_owner = "loop"
    /\ conn_pc = "idle"
    /\ conn_fn = "connect"
    /\ conn_ops = NoOps
    /\ conn_steps = <<>>
    /\ conn_result = "none"
    /\ conn_history = <<>>
    /\ tls_sessions = {}
    /\ nconnects = 0
    /\ publish_call = [called |-> FALSE, after |-> "none", result |-> "none"]
    /\ pp_pc = "idle"
    /\ pp_client_id = <<>>
    /\ message_counter = 0
    /\ pp_connects = 0
    /\ pp_result = "none"
    /\ pp_log = <<>>
    /\ hw_datetime = DateTime(2000, 1, 1, 0, 0, 0)
    /\ cached_timestamp = [unix_secs |-> U32(0, 0), micros |-> 0]
    /\ rtc_call = NoRtcCall
    /\ mon_pc = "wait_config_up"
    /\ mon_chan = <<>>
    /\ mon_sent = 0
    /\ mon_handled = <<>>
    /\ mon_dropped = <<>>
    /\ topic_call = NoTopicCall
    /\ cal_call = NoCalCall
    /\ ntp_call = NoNtpCall
    /\ cal_pc = 0
    /\ cal_args = Unsynced
    /\ cal_first = FALSE
    /\ cal_history = {}
    /\ ncals = 0
    /\ rd_pc = "idle"
    /\ rd_mono = U32(0, 0)
    /\ rd_loaded = Unsynced
    /\ rd_overlap = {}
    /\ rd_result = NoCall

Next == run \/ dns_query \/ send_to \/ recv_from \/ backoff

Spec == Init /\ [][Next]_vars

TaskNext == network_task \/ sntp_resync \/ frame_logger

TaskSpec == Init /\ [][TaskNext]_vars

\* The RTIC executor polls a task that is ready, and the timers the senders
\* sleep on fire.
FairTaskSpec ==
    /\ Init
    /\ [][TaskNext]_vars
    /\ WF_vars(network_task)
    /\ WF_vars(sntp_resync)
    /\ WF_vars(frame_logger)

SharedNext ==
    register_stack \/ run_sntp_resync_task \/ dns_query \/ send_to \/ recv_from \/ backoff

SharedStackSpec == Init /\ [][SharedNext]_vars

ClockNext == calibrate \/ now

ClockSpec == Init /\ [][ClockNext]_vars

PublishLoopNext == pp_connect \/ pp_cycle \/ pp_publish

PublishLoopSpec == Init /\ [][PublishLoopNext]_vars

RtcNext == write_rtc_call \/ read_rtc_call

RtcSpec == Init /\ [][RtcNext]_vars

MonitorNext == mon_send \/ mon_start \/ mon_select \/ mon_try_receive

MonitorSpec == Init /\ [][MonitorNext]_vars


IterCalendarSpec == Init /\ [][iter_round_trip]_vars


ClientIdSpec == Init /\ [][device_topic]_vars

ConnNext ==
    owner_connect \/ conn_dns \/ conn_tcp \/ conn_handshake \/ conn_mqtt \/ conn_close
        \/ owner_publish

ConnSpec == Init /\ [][ConnNext]_vars

TopicNext == format_topic

TopicSpec == Init /\ [][TopicNext]_vars

CalendarNext == round_trip

CalendarSpec == Init /\ [][CalendarNext]_vars

FromNtpNext == from_ntp_call

FromNtpSpec == Init /\ [][FromNtpNext]_vars

InterleavedNext == cal_start \/ cal_store \/ rd_load

InterleavedClockSpec == Init /\ [][InterleavedNext]_vars

----------------------------------------------------------------------------
(* Claims about the sync procedure and WallClock, checked under Spec *)

LastAttempt == attempts[Len(attempts)]
\* a step in which one attempt of the procedure ends
AttemptCompletes == Len(attempts') = Len(attempts) + 1

\* C1: the servers are tried strictly in list order with at most retry_count
\* attempts each, the next server is tried only after retry_count failures
\* on the one before, nothing is attempted after a success, and
\* AllServersFailed is returned only after NumServers * retry_count failures.
C1_ServerOrderAndRetries ==
    /\ Len(attempts) <= NumServers * retry_count
    /\ \A i \in 1..Len(attempts) :
          attempts[i].server = ((i - 1) \div retry_count) + 1
    /\ \A i \in 1..(Len(attempts) - 1) : ~attempts[i].ok
    /\ (Len(attempts) > 0 /\ LastAttempt.ok) => sync_pc = "idle"
    /\ sync_pc \in {"dns", "send", "recv"} =>
          /\ server = (Len(attempts) \div retry_count) + 1
          /\ attempt = Len(attempts) % retry_count
    /\ sync_result = "AllServersFailed" =>
          /\ Len(attempts) = NumServers * retry_count
          /\ \A i \in 1..Len(attempts) : ~attempts[i].ok

C1_Witness ==
    /\ sync_result = "AllServersFailed"
    /\ Len(attempts) = NumServers * retry_count

\* C2: once TIME_SYNCED is true it stays true, whatever later calls return.
C2_SyncedNeverReverts == [][wallclock.synced => wallclock'.synced]_vars

C2_Witness ==
    /\ wallclock.synced
    /\ client = "SntpClient"
    /\ sync_result = "AllServersFailed"

\* C3: when an attempt obtained a valid timestamp and the write of the backup
\* clock fails, the call still calibrates WallClock with that timestamp and
\* returns success.
C3_RtcWriteFailureNonFatal ==
    rtc.write \in {"NotInitialized", "HardwareError"} =>
        /\ sync_result = "Ok"
        /\ wallclock.synced
        /\ wallclock.base_unix_secs = as_u32(sync_ts.unix_secs)
        /\ wallclock.base_unix_micros = sync_ts.micros

\* C6: a reply that passes the length and source checks and carries stratum
\* 0 or a stratum above max_stratum fails the attempt with the server error
\* (ServerError, InvalidStratum in sync_sntp), and the calibration triple
\* and the synced flag are what they were before the attempt.
BadStratumReply(r) ==
    /\ r.kind = "datagram"
    /\ r.len = NTP_PACKET_LEN
    /\ r.src_ok
    /\ (r.stratum = 0 \/ r.stratum > max_stratum)

C6_StratumRejected ==
    [][(AttemptCompletes /\ BadStratumReply(last_reply')) =>
          /\ ~attempts'[Len(attempts')].ok
          /\ last_err' = IF client = "SntpClient" THEN "ServerError" ELSE "InvalidStratum"
          /\ sync_pc' = "backoff"
          /\ wallclock' = wallclock]_vars

C6_Witness ==
    /\ sync_pc = "backoff"
    /\ BadStratumReply(last_reply)
    /\ last_reply.stratum = 0
    /\ wallclock.synced

\* C7: when the timeout wins the select the attempt fails with Timeout,
\* WallClock is untouched, and after the backoff the procedure makes the next
\* attempt: the next retry on the same server, or the first attempt on the
\* next server when the retries are used up (after the last server the call
\* returns AllServersFailed).
C7_TimeoutRetries ==
    [][/\ (AttemptCompletes /\ last_reply'.kind = "timeout") =>
            /\ ~attempts'[Len(attempts')].ok
            /\ last_err' = "Timeout"
            /\ sync_pc' = "backoff"
            /\ wallclock' = wallclock
       /\ (sync_pc = "backoff" /\ last_err = "Timeout" /\ sync_pc' # "backoff") =>
            IF attempt + 1 < retry_count
            THEN sync_pc' = "dns" /\ server' = server /\ attempt' = attempt + 1
            ELSE IF server < NumServers
            THEN sync_pc' = "dns" /\ server' = server + 1 /\ attempt' = 0
            ELSE sync_pc' = "idle" /\ sync_result' = "AllServersFailed"]_vars

C7_Witness ==
    /\ sync_pc = "backoff"
    /\ last_err = "Timeout"
    /\ last_reply.kind = "timeout"
    /\ attempt = retry_count - 1
    /\ server = 1
    /\ wallclock.synced

\* C8: the amount added to the server's transmit time is
\* min((T1 - T0) / 2, 1 second) for every measured round trip.
C8_CorrectionClamped ==
    sync_result = "Ok" =>
        LET tx == from_ntp(last_reply.secs, last_reply.frac)
            added == (sync_ts.unix_secs - tx.unix_secs) * 1000000
                         + (sync_ts.micros - tx.micros)
        IN added = Min(last_reply.rtt \div 2, MAX_RTT_CORRECTION_US)

----------------------------------------------------------------------------
(* Claims about the tasks *)

\* C4: the pumps are advanced while network_task waits for the address
\* configuration, so it passes the wait and reaches its message loop.
C4_OwnerPassesConfigWait == (owner_pc = "wait_config_up") ~> (owner_pc = "join3")

C9_OnlyOwnerTouchesStack == \A op \in stack_ops : op[1] = "network_task"

\* C10: network_task goes through link bring-up, the address wait, the first
\* time sync and one secure-session connect attempt, in this order, and then
\* enters its message loop.
C10_EntrySequence ==
    <>(owner_pc = "panicked"
         \/ owner_phases = <<"link_bringup", "wait_config", "first_sync",
                             "connect", "message_loop">>)

----------------------------------------------------------------------------
(* Claims about reading the wall clock, checked under ClockSpec *)

\* a + b mod 2^32 on limbs
AddMod32(a, b) ==
    LET lo == a.lo + b.lo
    IN U32((a.hi + b.hi + (lo \div 65536)) % 65536, lo % 65536)

\* C11: a synced now_unix_time computes elapsed = (current_mono - base_mono)
\* mod 2^32: the elapsed value is the 32-bit value that added to the base
\* gives the current tick count modulo 2^32; base 4294967200 and current 100
\* give 196.
C11_WraparoundSafeElapsed ==
    now_call.synced =>
        /\ now_call.elapsed.hi \in 0..65535
        /\ now_call.elapsed.lo \in 0..65535
        /\ AddMod32(now_call.base_mono, now_call.elapsed) = now_call.mono
        /\ (now_call.base_mono = U32(65535, 65440) /\ now_call.mono = U32(0, 100))
              => now_call.elapsed = U32(0, 196)

C11_Witness ==
    /\ now_call.synced
    /\ now_call.base_mono = U32(65535, 65440)
    /\ now_call.mono = U32(0, 100)
    /\ now_call.elapsed = U32(0, 196)

\* C12: as long as the wall clock has not been calibrated, every call of
\* now_unix_time returns (0, 0), whatever the tick counter is.
C12_UnsyncedReturnsSentinel ==
    (now_call.called /\ ~wallclock.synced) =>
        (now_call.secs = U32(0, 0) /\ now_call.micros = 0)

C12_Witness ==
    /\ now_call.called
    /\ ~wallclock.synced
    /\ now_call.mono = U32(65535, 65535)
    /\ now_call.secs = U32(0, 0)
    /\ now_call.micros = 0

----------------------------------------------------------------------------
(* Claims about a reader running between the stores of a calibration,     *)
(* checked under InterleavedClockSpec                                      *)

LoadedTriple ==
    <<rd_loaded.base_unix_secs, rd_loaded.base_unix_micros, rd_loaded.base_mono_micros>>

\* C24: a reader whose loads run between the stores of the first
\* calibrate_wallclock returns (0, 0) or a value computed from the triple
\* that call wrote completely; a value computed from a partly written triple
\* is returned only by a reader whose loads ran between the stores of a
\* recalibration of an already synced clock.
C24_TornReadOnlyOnRecalibration ==
    rd_pc = "done" =>
        IF ~rd_loaded.synced
        THEN rd_result.secs = U32(0, 0) /\ rd_result.micros = 0
        ELSE /\ rd_result = now_unix_time(rd_loaded, rd_mono)
             /\ (LoadedTriple \in cal_history \/ "recalibration" \in rd_overlap)

\* a reader ran after the third store of the first calibration and before
\* its fourth: it returned (0, 0)
C24_Witness ==
    /\ rd_pc = "done"
    /\ rd_overlap = {"first"}
    /\ cal_pc = 4
    /\ wallclock.base_mono_micros = cal_args.base_mono_micros
    /\ ~rd_loaded.synced
    /\ rd_result.secs = U32(0, 0) /\ rd_result.micros = 0

----------------------------------------------------------------------------
(* End to end: a sync followed by a reading of the wall clock *)

\* the scenario of C13: one SntpClient::sync call in which every attempt on
\* the first two servers timed out and the third server sent a valid reply
\* with stratum 2; the write of the backup clock succeeded
TwoServersTimedOut ==
    /\ client = "SntpClient"
    /\ sync_pc = "idle"
    /\ Len(attempts) = 2 * retry_count + 1
    /\ timeouts = 2 * retry_count
    /\ last_reply.kind = "datagram"
    /\ response_ok(last_reply.len, last_reply.src_ok)
    /\ last_reply.stratum = 2
    /\ rtc.write = "Ok"

\* C13: in that scenario the call made retry_count attempts on each of the
\* first two servers and succeeded on the third, WallClock holds the transmit
\* timestamp plus half the round trip, and now_unix_time with the tick value
\* of the calibration returns exactly the stored seconds and microseconds.
C13_EndToEnd ==
    TwoServersTimedOut =>
        LET tx == from_ntp(last_reply.secs, last_reply.frac)
            sum == tx.micros + (last_reply.rtt \div 2)
            t == now_unix_time(wallclock, wallclock.base_mono_micros)
        IN /\ \A i \in 1..(2 * retry_count) :
                 attempts[i].server = ((i - 1) \div retry_count) + 1 /\ ~attempts[i].ok
           /\ attempts[2 * retry_count + 1] = [server |-> 3, ok |-> TRUE]
           /\ sync_result = "Ok"
           /\ wallclock.synced
           /\ wrapping_add(wallclock.base_unix_secs,
                           U32(0, wallclock.base_unix_micros \div 1000000))
                 = as_u32(tx.unix_secs + (sum \div 1000000))
           /\ wallclock.base_unix_micros % 1000000 = sum % 1000000
           /\ t.secs = wallclock.base_unix_secs
           /\ t.micros = wallclock.base_unix_micros

----------------------------------------------------------------------------
(* Claims about secure connections, checked under ConnSpec *)

\* C14: at every moment at most one TlsConnection, handshaking or
\* established, holds the static read/write buffer pair.
C14_OneSessionPerBufferPair == Cardinality(tls_sessions) <= 1

C14_Witness ==
    /\ tls_sessions = {2}
    /\ conn_pc = "mqtt_connect"
    /\ conn_history = <<"Ok">>

\* C15: when the handshake fails the call returns the handshake error, no
\* TlsConnection holds the buffer pair afterwards (the next call acquires
\* it), and no session-layer connect request was sent.
C15_HandshakeFailureReleasesBuffers ==
    /\ [][(conn_pc = "handshake" /\ conn_pc' = "returned") =>
             /\ conn_result' = "Tls(HandshakeFailed)"
             /\ tls_sessions' = {}
             /\ conn_ops'.mqtt = 0]_vars
    /\ [](conn_result = "Tls(HandshakeFailed)" =>
             (tls_sessions = {} /\ conn_ops.mqtt = 0))

C15_Witness ==
    /\ conn_history = <<"Tls(HandshakeFailed)">>
    /\ tls_sessions = {2}
    /\ conn_pc = "handshake"

\* C20: one call performs at most one resolution, one transport connect, one
\* handshake and one session connect request, and returns the first failure:
\* nothing is attempted after a step has failed.  The owning unit then goes
\* on with its loop.
C20_NoInternalRetry ==
    /\ [](/\ conn_ops.dns <= 1 /\ conn_ops.tcp <= 1
          /\ conn_ops.handshake <= 1 /\ conn_ops.mqtt <= 1
          /\ conn_result = "DnsError" =>
                (conn_ops.tcp = 0 /\ conn_ops.handshake = 0 /\ conn_ops.mqtt = 0)
          /\ conn_result = "SocketError" =>
                (conn_ops.dns = 1 /\ conn_ops.handshake = 0 /\ conn_ops.mqtt = 0)
          /\ conn_result = "Tls(HandshakeFailed)" =>
                (conn_ops.tcp = 1 /\ conn_ops.mqtt = 0)
          /\ conn_result = "Mqtt(ConnectionFailed)" =>
                (conn_ops.handshake = 1 /\ conn_ops.mqtt = 1))
    /\ [][/\ (conn_pc # "returned" /\ conn_pc' = "returned") =>
                (conn_result' # "none" /\ conn_owner' = "in_connect")
          /\ conn_pc = "returned" =>
                (conn_owner' = "loop" /\ conn_pc' = "idle" /\ conn_result' = conn_result)]_vars

C20_Witness ==
    /\ conn_history = <<"Mqtt(ConnectionFailed)">>
    /\ conn_owner = "in_connect"
    /\ nconnects = 2

----------------------------------------------------------------------------
(* Claims about the waits of a sync attempt, checked under Spec *)

\* C16: every network wait inside a sync attempt (hostname resolution,
\* datagram send, datagram receive) races a fixed-duration timer, so that no
\* attempt can wait forever.
C16_EveryWaitRacesTimer ==
    sync_pc \in {"dns", "send", "recv"} => raced_with_timer(sync_pc)

----------------------------------------------------------------------------
(* Claims about topic construction, checked under TopicSpec *)

HasInvalidChar(str) == \E i \in 1..Len(str) : str[i] \in {"+", "#", "NUL"}

\* C17: a client id or subtopic containing '+', '#' or a null byte gives a
\* protocol error; otherwise a concatenation "device/" id "/" subtopic longer
\* than the fixed topic buffer gives a buffer error; otherwise the result is
\* exactly device/<id>/<subtopic>.
C17_TopicConstruction ==
    topic_call.called =>
        LET id == topic_call.client_id
            sub == topic_call.subtopic
            r == topic_call.result
        IN  IF HasInvalidChar(id) \/ HasInvalidChar(sub)
            THEN ~r.ok /\ r.err = "ProtocolError"
            ELSE IF 7 + Len(id) + 1 + Len(sub) > MAX_TOPIC_LEN
            THEN ~r.ok /\ r.err = "BufferError"
            ELSE r.ok /\ r.topic = DevicePrefix \o id \o <<"/">> \o sub

\* a valid subtopic and id whose topic is one character too long for the buffer
C17_Witness ==
    /\ topic_call.called
    /\ topic_call.subtopic = Telemetry
    /\ Len(topic_call.client_id) = 48
    /\ topic_call.result.err = "BufferError"

----------------------------------------------------------------------------
(* Claims about the calendar conversions, checked under CalendarSpec *)

\* C18: for every unix_secs from 1970 through year 2105, unix_to_datetime
\* followed by datetime_to_unix returns the input exactly.
C18_CalendarRoundTrip ==
    cal_call.called => cal_call.back = cal_call.unix_secs

\* a timestamp on the last day of the range, 2105-12-31, made the round trip
C18_Witness ==
    /\ cal_call.called
    /\ cal_call.dt.year = 2105 /\ cal_call.dt.month = 12 /\ cal_call.dt.day = 31
    /\ cal_call.dt.hour > 0
    /\ cal_call.back = cal_call.unix_secs

LeapRule(y) == (y % 4 = 0 /\ y % 100 # 0) \/ y % 400 = 0

MonthLength(y, m) ==
    IF m = 2 THEN (IF LeapRule(y) THEN 29 ELSE 28)
    ELSE IF m \in {4, 6, 9, 11} THEN 30 ELSE 31

\* C19: is_leap_year(y) is (y % 4 = 0 and y % 100 # 0) or y % 400 = 0, and
\* civil_from_days gives, for every day of the range, a month in 1..12 and a
\* day within that month's length, February 29 only in leap years.
C19_CivilDateValid ==
    cal_call.called =>
        /\ cal_call.leap = LeapRule(cal_call.civil[1])
        /\ cal_call.civil[2] \in 1..12
        /\ cal_call.civil[3] \in 1..MonthLength(cal_call.civil[1], cal_call.civil[2])

\* the leap day 2024-02-29 is produced
C19_Witness ==
    /\ cal_call.called
    /\ cal_call.civil = <<2024, 2, 29>>
    /\ cal_call.leap

----------------------------------------------------------------------------
(* Further claims about the sync procedure, checked under Spec *)

\* C21: every timestamp a successful attempt returns has its microsecond
\* field in 0..999999, for every server fraction and every round trip below
\* the request timeout.
C21_MicrosInRange == sync_result = "Ok" => sync_ts.micros \in 0..999999

\* C23: a call that ends in AllServersFailed leaves the calibration triple
\* and the synced flag as they were when it started: no step of a call other
\* than its successful return writes WallClock, so a clock that was synced
\* keeps the last successful calibration.
C23_FailedSyncKeepsCalibration ==
    [][sync_result' # "Ok" => wallclock' = wallclock]_vars

\* a second call failed on every attempt after the first had calibrated
C23_Witness ==
    /\ nsyncs = 2
    /\ sync_result = "AllServersFailed"
    /\ Len(attempts) = NumServers * retry_count
    /\ wallclock.synced
    /\ wallclock.base_unix_micros > 0

\* a datagram that fails the validation of length and source
BadHeaderReply(r) ==
    /\ r.kind = "datagram"
    /\ (r.len # NTP_PACKET_LEN \/ ~r.src_ok)

\* C25: a reply whose length is not 48 bytes, or whose source is not the
\* resolved server address, fails the attempt without calibrating WallClock,
\* and the attempt is over: the procedure goes to its backoff, it does not
\* go on receiving.
C25_BadReplyConsumesAttempt ==
    [][(sync_pc = "recv" /\ BadHeaderReply(last_reply')) =>
          /\ AttemptCompletes
          /\ ~attempts'[Len(attempts')].ok
          /\ last_err' = "InvalidResponse"
          /\ sync_pc' = "backoff"
          /\ server' = server /\ attempt' = attempt
          /\ wallclock' = wallclock]_vars

\* a full-length reply from another address, with an acceptable stratum
C25_Witness ==
    /\ sync_pc = "backoff"
    /\ last_err = "InvalidResponse"
    /\ last_reply.len = NTP_PACKET_LEN
    /\ ~last_reply.src_ok
    /\ stratum_ok(last_reply.stratum)

FailedAttempts == Cardinality({i \in 1..Len(attempts) : ~attempts[i].ok})

\* C30: every failed attempt is followed by one backoff delay, the last
\* attempt on the last server included: AllServersFailed is returned after
\* exactly NumServers * retry_count delays have elapsed, and a successful
\* attempt is followed by none.
C30_BackoffAfterEveryFailure ==
    /\ backoffs = FailedAttempts - (IF sync_pc = "backoff" THEN 1 ELSE 0)
    /\ sync_pc = "backoff" => (Len(attempts) > 0 /\ ~LastAttempt.ok)
    /\ sync_result = "AllServersFailed" => backoffs = NumServers * retry_count
    /\ (Len(attempts) > 0 /\ LastAttempt.ok) =>
          (sync_pc = "idle" /\ backoffs = Len(attempts) - 1)

C30_Witness ==
    /\ sync_result = "AllServersFailed"
    /\ backoffs = NumServers * retry_count
    /\ sync_pc = "idle"

----------------------------------------------------------------------------
(* Further claims about reading the wall clock, checked under ClockSpec *)

\* base_unix_micros + elapsed, in units of 64 microseconds (the sum itself
\* may exceed the integers): 1_000_000 = 64 * 15625
RefTotal64(bm, e) == e.hi * 1024 + (e.lo \div 64) + (bm \div 64)
                        + (((e.lo % 64) + (bm % 64)) \div 64)

\* C22: a synced now_unix_time(t) equals base_unix_secs * 10^6 +
\* base_unix_micros + ((t - base_mono) mod 2^32) microseconds, split into
\* seconds modulo 2^32 and microseconds in 0..999999, for every calibration
\* with base_unix_micros below 10^6 and every 32-bit t.
C22_NowEqualsReference ==
    (now_call.synced /\ now_call.base_micros < 1000000) =>
        LET e == now_call.elapsed
            bm == now_call.base_micros
            q == RefTotal64(bm, e)
        IN /\ AddMod32(now_call.base_mono, e) = now_call.mono
           /\ now_call.micros \in 0..999999
           /\ now_call.micros = (q % 15625) * 64 + (((e.lo % 64) + (bm % 64)) % 64)
           /\ now_call.secs = AddMod32(now_call.base_secs, U32(0, q \div 15625))

\* a reading that carried from the microseconds and wrapped the seconds
C22_Witness ==
    /\ now_call.synced
    /\ now_call.base_secs = U32(65535, 65535)
    /\ now_call.base_micros = 999999
    /\ now_call.elapsed = U32(0, 196)
    /\ now_call.secs = U32(0, 0)
    /\ now_call.micros = 195

----------------------------------------------------------------------------
(* Claims about Timestamp::from_ntp, checked under FromNtpSpec *)

\* a is at least b, on limbs
GeqU32(a, b) == a.hi > b.hi \/ (a.hi = b.hi /\ a.lo >= b.lo)

\* C26: from_ntp(secs, frac) has unix_secs = secs - 2208988800 when secs is
\* at least 2208988800 and 0 otherwise, and micros = floor(frac * 10^6 / 2^32),
\* which is below 10^6; from_ntp(2208988800, 0) is (0, 0).
C26_FromNtp ==
    ntp_call.called =>
        LET offset == U32(NTP_UNIX_OFFSET_HI, NTP_UNIX_OFFSET_LO)
            s == ntp_call.ntp_secs
            f == ntp_call.ntp_frac
            ts == ntp_call.ts
            \* floor(frac * 15625 / 2^16); micros is floor of that over 2^10
            scaled == f.hi * 15625 + ((f.lo * 15625) \div 65536)
        IN /\ ts.unix_secs >= 0
           /\ IF GeqU32(s, offset)
              THEN AddMod32(as_u32(ts.unix_secs), offset) = s
              ELSE ts.unix_secs = 0
           /\ ts.micros \in 0..999999
           /\ ts.micros * 1024 <= scaled /\ scaled < (ts.micros + 1) * 1024
           /\ (s = offset /\ f = U32(0, 0)) => ts = Timestamp(0, 0)

\* seconds before the Unix epoch with the largest fraction
C26_Witness ==
    /\ ntp_call.called
    /\ ntp_call.ntp_secs = U32(NTP_UNIX_OFFSET_HI, NTP_UNIX_OFFSET_LO - 1)
    /\ ntp_call.ntp_frac = U32(65535, 65535)
    /\ ntp_call.ts = Timestamp(0, 999999)

----------------------------------------------------------------------------
(* Further claims about the tasks *)

C29_AcceptedMessagesReceived ==
    /\ [](Len(chan) <= CHANNEL_CAPACITY)
    /\ (Len(chan) = CHANNEL_CAPACITY)
          ~> (Len(chan) < CHANNEL_CAPACITY \/ owner_pc = "panicked")

----------------------------------------------------------------------------
(* Two readings of the wall clock with no calibration between them,        *)
(* checked under ClockSpec                                                 *)

\* the ticks elapsed since the calibration at a reading, computed from the
\* reading's argument and the base it loaded
ElapsedAt(r) == wrapping_sub(r.mono, r.base_mono)

\* reading b is not earlier than reading a
NotEarlier(a, b) ==
    \/ (b.secs # a.secs /\ GeqU32(b.secs, a.secs))
    \/ (b.secs = a.secs /\ b.micros >= a.micros)

\* the seconds of reading r have not passed 2^32:
\* base_unix_secs + (base_unix_micros + elapsed) / 10^6 < 2^32
SecondsNotWrapped(r) ==
    LET q == RefTotal64(r.base_micros, ElapsedAt(r)) \div 15625
    IN r.base_secs.hi < 65535 \/ r.base_secs.lo + q <= 65535

\* two synced readings in succession, the second at least as many ticks after
\* the calibration as the first
TwoReadingsInOrder ==
    /\ Len(readings) = 2
    /\ readings[1].synced /\ readings[2].synced
    /\ GeqU32(ElapsedAt(readings[2]), ElapsedAt(readings[1]))

----------------------------------------------------------------------------
(* Further claims about secure connections, checked under ConnSpec *)

\* the steps of MqttClient::connect in program order
ConnectOrder ==
    <<"resolve", "transport_connect", "acquire_buffers", "handshake", "session_connect">>

\* C32: MqttClient::connect runs resolve, transport connect, acquire buffer
\* pair, handshake, session connect request in this order and stops at the
\* first step that fails; a failed resolution returns DnsError and a failed
\* transport connect returns SocketError, in both cases without the buffer
\* pair having been acquired; a rejected session connect request returns
\* ConnectionFailed.
C32_ConnectStepOrder ==
    conn_fn = "connect" =>
        /\ Len(conn_steps) <= Len(ConnectOrder)
        /\ \A i \in 1..Len(conn_steps) :
              /\ conn_steps[i].name = ConnectOrder[i]
              /\ conn_steps[i].outcome # "ok" => i = Len(conn_steps)
        /\ conn_result = "DnsError"
              <=> (Len(conn_steps) = 1 /\ conn_steps[1].outcome # "ok")
        /\ conn_result = "SocketError"
              <=> (Len(conn_steps) = 2 /\ conn_steps[2].outcome # "ok")
        /\ conn_result \in {"DnsError", "SocketError"} =>
              /\ \A i \in 1..Len(conn_steps) : conn_steps[i].name # "acquire_buffers"
              /\ tls_sessions = {}
              /\ conn_pc \in {"returned", "idle"}
        /\ (Len(conn_steps) = 5 /\ conn_steps[5].outcome # "ok") =>
              (conn_result = "Mqtt(ConnectionFailed)" /\ conn_pc \in {"returned", "idle"})

\* a call rejected by the broker, then a call whose transport connect failed
C32_Witness ==
    /\ conn_fn = "connect"
    /\ conn_history = <<"Mqtt(ConnectionFailed)">>
    /\ conn_result = "SocketError"
    /\ conn_steps = <<Step("resolve", "ok"), Step("transport_connect", "err")>>

----------------------------------------------------------------------------
(* Claims about the periodic publish loop, checked under PublishLoopSpec *)

\* C34: in the publish loop a publish that failed, like one that succeeded,
\* leads to the next interval wait with the same session and no connect; each
\* cycle increases the message counter by exactly one; and the loop is left
\* only with the error of formatting the topic or the payload.
C34_FailedPublishContinues ==
    /\ [][pp_pc = "publish" =>
             /\ pp_pc' = "timer"
             /\ pp_result' = "none"
             /\ pp_connects' = pp_connects
             /\ message_counter' = message_counter]_vars
    /\ [][pp_pc = "timer" =>
             /\ message_counter' = message_counter + 1
             /\ pp_connects' = pp_connects
             /\ pp_pc' \in {"publish", "returned"}
             /\ pp_pc' = "returned" =>
                   pp_result' \in {"Mqtt(ProtocolError)", "Mqtt(BufferError)"}]_vars
    /\ [](\A i \in 1..Len(pp_log) : pp_log[i].msg_id = i /\ pp_log[i].session = 1)

\* a failed publish followed by the next cycle's publish on the same session
C34_Witness ==
    /\ Len(pp_log) = 2
    /\ pp_log[1] = [msg_id |-> 1, outcome |-> "err", session |-> 1]
    /\ pp_log[2] = [msg_id |-> 2, outcome |-> "ok", session |-> 1]
    /\ pp_pc = "timer"
    /\ pp_connects = 1

----------------------------------------------------------------------------
(* A further claim about topic construction, checked under TopicSpec *)

\* C35: format_mqtt_topic succeeds exactly when neither component contains
\* '+', '#' or a null byte and 7 + len(client_id) + 1 + len(subtopic) <= 64;
\* an input that is over-length and also contains a forbidden character
\* gives the protocol error, not the buffer error.
C35_TopicSuccessCondition ==
    topic_call.called =>
        LET id == topic_call.client_id
            sub == topic_call.subtopic
            fits == 7 + Len(id) + 1 + Len(sub) <= MAX_TOPIC_LEN
            clean == ~HasInvalidChar(id) /\ ~HasInvalidChar(sub)
        IN /\ topic_call.result.ok <=> (clean /\ fits)
           /\ (~fits /\ ~clean) => topic_call.result.err = "ProtocolError"

\* an over-long client id that also carries a wildcard
C35_Witness ==
    /\ topic_call.called
    /\ topic_call.client_id = Repeat("a", 93) \o <<"+">>
    /\ topic_call.subtopic = Telemetry
    /\ ~topic_call.result.ok
    /\ topic_call.result.err = "ProtocolError"

----------------------------------------------------------------------------
(* Claims about the backup clock, checked under RtcSpec *)

\* a step that is a call of fn
RtcCallStep(fn) == rtc_call'.seq # rtc_call.seq /\ rtc_call'.fn = fn

\* C36: write_rtc sets the synced flag only when the hardware write
\* succeeded: when the write fails it returns HardwareError and the flag
\* keeps its value; read_rtc called while the flag is false returns NotSynced
\* without reading the hardware and without changing the cached timestamp.
C36_RtcFlagAndGuard ==
    /\ [][RtcCallStep("write_rtc") =>
             IF rtc_call'.hw_ok
             THEN rtc_call'.result = "Ok" /\ wallclock'.synced
             ELSE /\ rtc_call'.result = "HardwareError"
                  /\ wallclock'.synced = wallclock.synced
                  /\ hw_datetime' = hw_datetime]_vars
    /\ [][(RtcCallStep("read_rtc") /\ ~wallclock.synced) =>
             /\ rtc_call'.result = "NotSynced"
             /\ ~rtc_call'.read_hw
             /\ cached_timestamp' = cached_timestamp
             /\ ~wallclock'.synced]_vars

\* the second call made, a read that is refused because the flag is still false
C36_Witness ==
    /\ ~wallclock.synced
    /\ rtc_call.fn = "read_rtc"
    /\ rtc_call.seq = 0
    /\ rtc_call.result = "NotSynced"
    /\ ~rtc_call.read_hw
    /\ hw_datetime = DateTime(2000, 1, 1, 0, 0, 0)

----------------------------------------------------------------------------
(* A claim about the network monitor, checked under MonitorSpec *)

\* C38: every message enqueued on NETWORK_CHANNEL is handled exactly once:
\* no message is taken from the channel and discarded without being handled,
\* and a message that is no longer queued has been handled, once.
C38_EveryMessageHandledOnce ==
    /\ mon_dropped = <<>>
    /\ \A m \in 1..mon_sent :
          (\A i \in 1..Len(mon_chan) : mon_chan[i] # m) =>
              Cardinality({i \in 1..Len(mon_handled) : mon_handled[i] = m}) = 1

----------------------------------------------------------------------------
(* A claim about the conversions of time.rs, checked under IterCalendarSpec *)

\* C37: for every unix_secs in 1970 through 2105 the year-by-year
\* unix_to_datetime of time.rs returns the civil date and time that
\* calendar.rs returns, and datetime_to_unix of time.rs applied to its result
\* gives unix_secs back.
C37_IterativeMatchesCalendar ==
    cal_call.iter.called =>
        /\ ~cal_call.iter.panicked
        /\ cal_call.iter.dt = cal_call.dt
        /\ cal_call.iter.back = cal_call.unix_secs

----------------------------------------------------------------------------
(* A claim about the client identifier, checked under ClientIdSpec *)

\* C39: the client identifier is the 10-character prefix followed by the 24
\* hex characters of the device id, 34 characters, which is the capacity of
\* its buffer, so neither expect fires; and with it the topics for
\* 'telemetry' and 'status' fit the 64-character buffer and format_mqtt_topic
\* succeeds.
C39_ClientIdFitsAndTopicsFit ==
    (topic_call.called /\ topic_call.uid # <<>>) =>
        /\ ~topic_call.id_panicked
        /\ Len(Stm32Prefix) = 10
        /\ Len(topic_call.uid) = 24
        /\ topic_call.client_id = Stm32Prefix \o topic_call.uid
        /\ Len(topic_call.client_id) = CLIENT_ID_MAX_LEN
        /\ topic_call.result.ok
        /\ topic_call.result.topic
              = DevicePrefix \o topic_call.client_id \o <<"/">> \o topic_call.subtopic
        /\ Len(topic_call.result.topic) <= MAX_TOPIC_LEN

\* the telemetry topic of one device: 51 characters
C39_Witness ==
    /\ topic_call.called
    /\ topic_call.uid = Repeat("0", 12) \o Repeat("f", 12)
    /\ topic_call.subtopic = Telemetry
    /\ ~topic_call.id_panicked
    /\ topic_call.result.ok
    /\ Len(topic_call.result.topic) = 51

====
